---- MODULE Spec2Model ----
(***************************************************************************)
(* A model of the value-separated storage engine (WiscKey on LevelDB):     *)
(* the vlog write path, the garbage collector of db/blob_vlog_gc.cc, the   *)
(* obsolete-file reclamation and the recovery of the value log.            *)
(*                                                                         *)
(* The LSM (DBImpl), the vlog builder/reader and the recovery code are     *)
(* collaborators modelled from their documented contracts and from what    *)
(* db/value_log_test.cc observes.                                          *)
(***************************************************************************)
EXTENDS Integers, Sequences, FiniteSets, TLC

(***************************************************************************)
(* Bounds of the model.                                                    *)
(***************************************************************************)
MaxSeq == 4          \* LSM commits in one behaviour
MaxFileNumber == 6   \* file numbers that may be handed out
MaxUnsynced == 2     \* LSM commits the operating system holds unsynced
MaxRWFiles == 3      \* VLogRWFile objects made in one behaviour
MaxIterators == 2    \* iterators open on one VLogRWFile
MaxPuts == 6         \* records put directly into the value log
NumWriters == 2      \* foreground threads that write

(***************************************************************************)
(* Options (leveldb::Options).  The values are scaled down so that a vlog  *)
(* file holds two records and a value handle fits below the threshold.     *)
(***************************************************************************)
blob_value_size_threshold == 10
blob_max_file_size == 26
blob_gc_size_discard_threshold == 50
blob_gc_num_discard_threshold == 51

FirstVLogNumber == 3

\* The GC thresholds of the options above, and thresholds of 0, with which
\* no file is below them.
DefaultOptions ==
  [blob_gc_size_discard_threshold |-> blob_gc_size_discard_threshold,
   blob_gc_num_discard_threshold |-> blob_gc_num_discard_threshold]
ZeroThresholds ==
  [blob_gc_size_discard_threshold |-> 0, blob_gc_num_discard_threshold |-> 0]

(***************************************************************************)
(* Byte strings and the coding helpers.                                    *)
(***************************************************************************)
RECURSIVE PutVarint32(_)
PutVarint32(v) ==
  IF v < 128 THEN <<v>>
  ELSE <<128 + (v % 128)>> \o PutVarint32(v \div 128)

SizeOfVariant32(v) == Len(PutVarint32(v))

\* Decodes a varint starting at 1-based position pos of b, reading below limit.
\* Returns [ok, value, next].
RECURSIVE GetVarint32(_, _, _)
GetVarint32(b, pos, limit) ==
  IF pos > limit \/ pos > Len(b) THEN [ok |-> FALSE, value |-> 0, next |-> pos]
  ELSE IF b[pos] < 128 THEN [ok |-> TRUE, value |-> b[pos], next |-> pos + 1]
  ELSE LET r == GetVarint32(b, pos + 1, limit)
       IN  [ok |-> r.ok, value |-> (b[pos] - 128) + 128 * r.value, next |-> r.next]

PutFixed32(v) ==
  << v % 256, (v \div 256) % 256, (v \div 65536) % 256, (v \div 16777216) % 256 >>

DecodeFixed32(b, pos) ==
  b[pos] + 256 * b[pos + 1] + 65536 * b[pos + 2] + 16777216 * b[pos + 3]

SubBytes(b, from, len) == [i \in 1..len |-> b[from + i - 1]]

(***************************************************************************)
(* ValueHandle: varint(table_) . fixed32(offset_) . fixed32(size_), where  *)
(* table_ is the number of the vlog file.  The second field of the handle  *)
(* is 0 in every handle the tests build and is left out.                   *)
(***************************************************************************)
ValueHandle(file, offset, size) ==
  [table_ |-> file, offset_ |-> offset, size_ |-> size]

DefaultHandle == ValueHandle(0, 0, 0)

EncodeTo(h) ==
  PutVarint32(h.table_) \o PutFixed32(h.offset_) \o PutFixed32(h.size_)

\* DecodeFrom overwrites the fields of h as far as the updates decodes; the
\* callers below ignore the returned status.
DecodeFrom(h, updates) ==
  LET f == GetVarint32(updates, 1, Len(updates))
  IN  IF ~f.ok THEN h
      ELSE IF Len(updates) < f.next + 3
           THEN [h EXCEPT !.table_ = f.value]
      ELSE IF Len(updates) < f.next + 7
           THEN [h EXCEPT !.table_ = f.value,
                          !.offset_ = DecodeFixed32(updates, f.next)]
      ELSE ValueHandle(f.value, DecodeFixed32(updates, f.next),
                       DecodeFixed32(updates, f.next + 4))

\* The value handle an LSM entry of type Handle carries.
HandleOf(e) == DecodeFrom(DefaultHandle, e.value)

(***************************************************************************)
(* Vlog record: varint(key_len) . varint(value_len) . key . value          *)
(***************************************************************************)
\* The payload length alone, without the two length prefixes.
SizeOfPayload(key, val) == Len(key) + Len(val)

SizeOf(key, val) ==
  SizeOfVariant32(Len(key)) + SizeOfVariant32(Len(val)) + Len(key) + Len(val)

EncodeRecord(key, val) ==
  PutVarint32(Len(key)) \o PutVarint32(Len(val)) \o key \o val

\* Decodes the record at byte offset off (0-based) of data, not reading past
\* the logical end of file limit.  Returns [ok, key, value, size].
DecodeRecord(data, off, limit) ==
  LET bad == [ok |-> FALSE, key |-> <<>>, value |-> <<>>, size |-> 0]
      kl  == GetVarint32(data, off + 1, limit)
  IN  IF ~kl.ok THEN bad
      ELSE LET vl == GetVarint32(data, kl.next, limit)
           IN  IF ~vl.ok THEN bad
               ELSE IF vl.next - 1 + kl.value + vl.value > limit
                       \/ vl.next - 1 + kl.value + vl.value > Len(data)
                    THEN bad
               ELSE [ok    |-> TRUE,
                     key   |-> SubBytes(data, vl.next, kl.value),
                     value |-> SubBytes(data, vl.next + kl.value, vl.value),
                     size  |-> (vl.next - 1 - off) + kl.value + vl.value]

(***************************************************************************)
(* The user's keys and values.                                             *)
(***************************************************************************)
Keys == { <<1>>, <<2>> }

ShortValue == <<7>>
LargeValue == [i \in 1..blob_value_size_threshold |-> 9]
\* An inline value whose bytes are those of an encoded value handle.
HandleBytes ==
  EncodeTo(ValueHandle(FirstVLogNumber, SizeOf(<<1>>, LargeValue),
                       SizeOf(<<1>>, LargeValue)))

\* A value one byte below blob_value_size_threshold.
NearValue == [i \in 1..(blob_value_size_threshold - 1) |-> 8]

UserValues == { ShortValue, HandleBytes, LargeValue }

\* Results of Get: a status and, when the status is OK, the value.
Ok(v) == [status |-> "OK", value |-> v]
Err(st) == [status |-> st, value |-> <<>>]
NotFound == Err("NotFound")

\* The first key is put with every kind of value and deleted; the second
\* key only fills the vlog files.
UserOps ==
  [op : {"Put"}, key : {<<1>>}, value : UserValues]
    \cup [op : {"Delete"}, key : {<<1>>}, value : {<<>>}]
    \cup [op : {"Put"}, key : {<<2>>}, value : {LargeValue}]

\* The batches a foreground Write is called with.
UserBatches == { <<o>> : o \in UserOps }

(***************************************************************************)
(* State.                                                                  *)
(***************************************************************************)
VARIABLES
  \* LSM (DBImpl): the synced state, its sequence number and the commits that
  \* are written to the WAL but not yet synced; the sequences of live snapshots
  lsm, lsm_seq, wal, snapshots,
  \* the vlog files on disk and the manifest (the durable version)
  files, manifest,
  \* ValueLogImpl members
  vlog_file_number_, manifest_number_, rwfile_, ro_files_, obsolete_files_,
  pending_outputs_, gc_pointer_, manual_gc_, manual_gc_number,
  bg_garbage_collection_, bg_error_, shutdown_,
  \* whether more than blob_gc_interval has passed since gc_last_run_
  gc_interval_elapsed,
  \* jobs handed to env_->Schedule and not yet started
  bg_queue,
  \* whether a thread is inside WaitVLogGC, waiting on bg_work_cv_
  waiting,
  \* options_: the GC thresholds the value log was opened with
  options_,
  \* the background thread: its position and its GarbageCollection
  gcpc, gc,
  \* the foreground writer: its position in BlobDB::Write and its batches
  fg,
  \* history: the position of the background thread when the process last
  \* stopped ("never" before the first stop)
  stopped_at, returned, lost,
  \* history: the batch the latest recorded BlobDB::Write was called with
  updates,
  \* the iterator a reader holds: its LSM view, its position and its cache
  iterator,
  \* the VLogRWFile objects made so far, the last of them the current one
  rwfiles,
  \* the locks: where each thread stands in its code, the holder of mutex_
  \* and the writer and the readers of rwlock_
  sync

lsmVars == << lsm, lsm_seq, wal, snapshots >>
diskVars == << files, manifest >>
versionVars == << vlog_file_number_, manifest_number_, rwfile_, ro_files_,
                  obsolete_files_, pending_outputs_ >>
schedVars == << gc_pointer_, manual_gc_, manual_gc_number,
                bg_garbage_collection_, bg_error_, shutdown_,
                gc_interval_elapsed, bg_queue, waiting, options_ >>
gcVars == << gcpc, gc >>
histVars == << stopped_at, returned, lost, updates, iterator, rwfiles,
              sync >>
vars == << lsmVars, diskVars, versionVars, schedVars, gcVars, fg, histVars >>

FileNumbers == 1..MaxFileNumber

\* A VLogRWFile after the value log made it and called Ref(): refs_, closed_,
\* whether it is the current file, the iterators open on it, the calls of
\* Unref() that stand between the decrement and the test (unref those of
\* iterators, building that of the value log) and how often it was deleted.
NewVLogRWFile ==
  [refs_ |-> 1, closed_ |-> FALSE, current |-> TRUE, iterators |-> 0,
   unref |-> 0, building |-> FALSE, deleted |-> 0]

\* VLogRWFile::Ref
Ref(f) == [f EXCEPT !.refs_ = @ + 1]

\* VLogRWFile::Unref: "--refs_;" ...
UnrefDecrement(f) == [f EXCEPT !.refs_ = @ - 1, !.unref = @ + 1]

\* ... and "if (refs_ <= 0) delete this;".
UnrefTest(f) ==
  [f EXCEPT !.unref = @ - 1,
            !.deleted = IF f.refs_ <= 0 THEN @ + 1 ELSE @]

\* VLogRWFile::Finish
Finish(f) == [f EXCEPT !.closed_ = TRUE]

NoFile == [exists |-> FALSE, data |-> <<>>, synced |-> 0]
EmptyFile == [exists |-> TRUE, data |-> <<>>, synced |-> 0]

EmptyMap == [n \in {} |-> 0]
MapPut(m, k, v) == [n \in DOMAIN m \cup {k} |-> IF n = k THEN v ELSE m[n]]
MapErase(m, ks) == [n \in DOMAIN m \ ks |-> m[n]]

(***************************************************************************)
(* LSM.  An entry is a value-type tag and the stored bytes; want is a      *)
(* history field: what a Get of the key must return while the entry is     *)
(* the visible one.                                                        *)
(***************************************************************************)
kTypeDeletion == "Deletion"
kTypeValue == "Inline"
kTypeValueHandle == "Handle"

AbsentEntry == [type |-> "Absent", value |-> <<>>, want |-> NotFound]

LatestSequence == lsm_seq + Len(wal)

\* The LSM contents after the first n unsynced commits.
RECURSIVE ApplyWal(_, _, _)
ApplyWal(base, w, n) ==
  IF n = 0 THEN base
  ELSE [ApplyWal(base, w, n - 1) EXCEPT
          ![w[n].key] = [type |-> w[n].type, value |-> w[n].value,
                         want |-> w[n].want]]

LsmEntry(key) == ApplyWal(lsm, wal, Len(wal))[key]

\* DBImpl::Get(options, key, &value, &valueType)
LsmGet(key) ==
  LET e == LsmEntry(key)
  IN  IF e.type \in {"Absent", kTypeDeletion}
      THEN [status |-> "NotFound", value |-> <<>>, type |-> kTypeDeletion]
      ELSE [status |-> "OK", value |-> e.value, type |-> e.type]

\* DBImpl::Write without a callback: the batch is committed as a whole.
\* The commit is appended to the write-ahead log without a sync; the
\* operating system writes the oldest commits back once more than
\* MaxUnsynced of them are pending.
LsmWrite(batch) ==
  LET log == wal \o batch
      back == IF Len(log) > MaxUnsynced THEN Len(log) - MaxUnsynced ELSE 0
  IN  /\ LatestSequence + Len(batch) <= MaxSeq
      /\ lsm' = ApplyWal(lsm, log, back)
      /\ lsm_seq' = lsm_seq + back
      /\ wal' = SubSeq(log, back + 1, Len(log))
      /\ UNCHANGED snapshots

(***************************************************************************)
(* Vlog files, ValueBatch and the version.                                 *)
(***************************************************************************)
FileAppend(fs, n, bytes) == [fs EXCEPT ![n].data = @ \o bytes]

\* A Sync that returns without making anything durable.
FileSyncNoop(fs, n) == fs

\* AppendableRandomAccessFile::Sync: what was appended becomes durable.
FileSync(fs, n) == [fs EXCEPT ![n].synced = Len(fs[n].data)]

RECURSIVE BatchBytes(_)
BatchBytes(vb) ==
  IF vb = <<>> THEN <<>>
  ELSE EncodeRecord(Head(vb).key, Head(vb).value) \o BatchBytes(Tail(vb))

\* ValueBatch::Finalize(file, base offset): the handle of every record.
RECURSIVE Finalize(_, _, _)
Finalize(vb, file, base) ==
  IF vb = <<>> THEN <<>>
  ELSE LET sz == SizeOf(Head(vb).key, Head(vb).value)
       IN  <<ValueHandle(file, base, sz)>> \o Finalize(Tail(vb), file, base + sz)

MapMerge(m, e) ==
  [n \in DOMAIN m \cup DOMAIN e |-> IF n \in DOMAIN e THEN e[n] ELSE m[n]]

\* BlobVersionEdit
NewEdit == [added |-> EmptyMap, deleted |-> EmptyMap]
AddFile(edit, number, size) == [edit EXCEPT !.added = MapPut(@, number, size)]
\* DeleteFile that does not record the obsolete sequence.
DeleteFileAtZero(edit, number, seq) == [edit EXCEPT !.deleted = MapPut(@, number, 0)]

DeleteFile(edit, number, seq) == [edit EXCEPT !.deleted = MapPut(@, number, seq)]

\* ValueLogImpl::LogAndApply: the edit is written to the manifest and synced,
\* then applied to the version in memory.
LogAndApply(edit) ==
  /\ manifest' = [ro |-> MapMerge(manifest.ro, edit.added),
                  obsolete |-> MapMerge(manifest.obsolete, edit.deleted)]
  /\ ro_files_' = MapMerge(ro_files_, edit.added)
  /\ obsolete_files_' = MapMerge(obsolete_files_, edit.deleted)

(***************************************************************************)
(* Reads.                                                                  *)
(***************************************************************************)
\* ValueLogImpl::GetLocked with the version it reads (the files fs, the
\* live set ro, the active file rw): the file must be the active file or a
\* file of the live set; the record at the handle's offset is decoded and
\* its size compared with the handle's.
GetLocked(fs, ro, rw, h) ==
  IF h.table_ # rw /\ h.table_ \notin DOMAIN ro
  THEN NotFound
  ELSE LET f == fs[h.table_]
       IN  IF ~f.exists THEN Err("IOError")
           ELSE LET r == DecodeRecord(f.data, h.offset_, Len(f.data))
                IN  IF ~r.ok \/ (h.size_ # 0 /\ r.size # h.size_)
                    THEN Err("Corruption")
                    ELSE Ok(r.value)

\* ValueLogImpl::Get(handle)
VLogGet(h) == GetLocked(files, ro_files_, rwfile_, h)

\* What BlobDB::Get returns for a key whose LSM entry is e, under the
\* version (fs, ro, rw).
GetEntry(e, fs, ro, rw) ==
  IF e.type \in {"Absent", kTypeDeletion} THEN NotFound
  ELSE IF e.type = kTypeValueHandle THEN GetLocked(fs, ro, rw, HandleOf(e))
  ELSE Ok(e.value)

\* BlobDB::Get
Get(key) == GetEntry(LsmEntry(key), files, ro_files_, rwfile_)

(***************************************************************************)
(* The iterator of BlobDB: the LSM iterator with the values fetched from   *)
(* the value log.  A position is a key, <<>> when the iterator is not      *)
(* Valid.  Keys are compared by their first byte.                          *)
(***************************************************************************)
\* The number of handles one bulk read of the prefetch covers.
PrefetchAhead == 2

NoIterator ==
  [open |-> FALSE, prefetch |-> FALSE, view |-> <<>>, key |-> <<>>,
   cache |-> <<>>]

\* The keys the LSM iterator shows: deletions are hidden.
LiveKeys(view) ==
  {k \in Keys : view[k].type \notin {"Absent", kTypeDeletion}}

FirstOf(ks) == IF ks = {} THEN <<>> ELSE CHOOSE k \in ks : \A j \in ks : k[1] <= j[1]
LastOf(ks) == IF ks = {} THEN <<>> ELSE CHOOSE k \in ks : \A j \in ks : k[1] >= j[1]

KeyAfter(view, key) == FirstOf({k \in LiveKeys(view) : k[1] > key[1]})
KeyBefore(view, key) == LastOf({k \in LiveKeys(view) : k[1] < key[1]})

\* The keys of one bulk read that starts at key: the handles that follow in
\* key order and lie in the same file, at most left of them.
RECURSIVE PrefetchGroup(_, _, _, _)
PrefetchGroup(view, key, file, left) ==
  IF key = <<>> \/ left = 0 THEN {}
  ELSE IF view[key].type # kTypeValueHandle THEN {}
  ELSE IF HandleOf(view[key]).table_ # file THEN {}
  ELSE {key} \cup PrefetchGroup(view, KeyAfter(view, key), file, left - 1)

\* The iterator placed at key.  With blob_prefetch a handle that is not in
\* the cache starts a bulk read, whose values are kept.
PlacedAt(it, key) ==
  IF it.prefetch /\ key # <<>> /\ key \notin DOMAIN it.cache
     /\ it.view[key].type = kTypeValueHandle
  THEN LET group == PrefetchGroup(it.view, key, HandleOf(it.view[key]).table_,
                                  PrefetchAhead)
       IN  [it EXCEPT !.key = key,
                      !.cache = [k \in group |->
                                   GetEntry(it.view[k], files, ro_files_, rwfile_)]]
  ELSE [it EXCEPT !.key = key]

\* Iterator::value(): the cached value, the inline value of the LSM, or the
\* value fetched from the value log.
IterValue(it) ==
  IF it.key \in DOMAIN it.cache THEN it.cache[it.key]
  ELSE GetEntry(it.view[it.key], files, ro_files_, rwfile_)

(***************************************************************************)
(* The foreground write path: BlobDB::Write and ValueLogImpl::Write.       *)
(***************************************************************************)
\* The threshold test with the boundary on the wrong side.
IsLargeStrict(o) == o.op = "Put" /\ Len(o.value) > blob_value_size_threshold

IsLarge(o) == o.op = "Put" /\ Len(o.value) >= blob_value_size_threshold

\* BlobDB::DivideWriteBatch: the LSM batch (a handle entry keeps the slot of
\* its record in the value batch) and the value batch.
DivideWriteBatch(input) ==
  LET slot(i) == Cardinality({j \in 1..i : IsLarge(input[j])})
      nlarge == slot(Len(input))
      at(s) == CHOOSE i \in 1..Len(input) : IsLarge(input[i]) /\ slot(i) = s
  IN  [small |->
         [i \in 1..Len(input) |->
            IF input[i].op = "Delete"
            THEN [key |-> input[i].key, type |-> kTypeDeletion, value |-> <<>>,
                  want |-> NotFound, slot |-> 0]
            ELSE IF IsLarge(input[i])
            THEN [key |-> input[i].key, type |-> kTypeValueHandle, value |-> <<>>,
                  want |-> Ok(input[i].value), slot |-> slot(i)]
            ELSE [key |-> input[i].key, type |-> kTypeValue,
                  value |-> input[i].value, want |-> Ok(input[i].value),
                  slot |-> 0]],
       large |->
         [s \in 1..nlarge |-> [key |-> input[at(s)].key, value |-> input[at(s)].value]]]

\* The LSM batch with the handles of the finalized value batch filled in.
FillHandles(small, handles) ==
  [i \in 1..Len(small) |->
     [key |-> small[i].key, type |-> small[i].type, want |-> small[i].want,
      value |-> IF small[i].type = kTypeValueHandle
                THEN EncodeTo(handles[small[i].slot]) ELSE small[i].value]]

\* The foreground threads that call BlobDB::Write; each is idle, holds the
\* write permit of the value log with its records appended, or has synced
\* the value log and is about to submit its LSM batch.
Writers == 1..NumWriters

FgIdle == [pc |-> "idle", small |-> <<>>]
AllIdle == [t \in Writers |-> FgIdle]

\* The threads that take the locks: the GC thread and the foreground threads.
GCThread == 0
LockThreads == {GCThread} \cup Writers

\* Every thread at the start of its code and no lock held.
NoLocks ==
  [pc |-> [t \in LockThreads |-> 1], mutex_ |-> {}, writer |-> {},
   readers |-> {}]

\* The permit with no test: every thread may append at any time.
PermitAlwaysFree == TRUE

\* The write permit of the value log is free.
PermitFree == \A u \in Writers : fg[u].pc # "appended"

\* A write without large values goes to the LSM alone.
WriteSmallBy(t, batch) ==
  /\ fg[t].pc = "idle"
  /\ DivideWriteBatch(batch).large = <<>>
  /\ LsmWrite(FillHandles(DivideWriteBatch(batch).small, <<>>))
  /\ UNCHANGED << diskVars, versionVars, schedVars, gcVars, fg, iterator, rwfiles,
                  sync,
                  stopped_at,
                  returned, lost >>

\* NewFileNumber without the increment: the last number is handed out again.
NewFileNumberReused == vlog_file_number_

\* ValueLogImpl::NewFileNumber: ++vlog_file_number_, the value it returns.
NewFileNumber == vlog_file_number_ + 1

\* ValueLogImpl::Write: the value batch is finalized at the active file's
\* offset and appended; a file that reached blob_max_file_size is finished,
\* added to the version and replaced by a new active file.
WriteLargeBy(t, batch) ==
  LET d == DivideWriteBatch(batch)
      base == Len(files[rwfile_].data)
      handles == Finalize(d.large, rwfile_, base)
      appended == FileAppend(files, rwfile_, BatchBytes(d.large))
      size == Len(appended[rwfile_].data)
  IN  /\ fg[t].pc = "idle"
      /\ PermitFree
      /\ d.large # <<>>
      /\ fg' = [fg EXCEPT ![t] = [pc |-> "appended",
                                  small |-> FillHandles(d.small, handles)]]
      /\ IF size >= blob_max_file_size
         THEN /\ vlog_file_number_ < MaxFileNumber
              /\ vlog_file_number_' = NewFileNumber
              /\ rwfile_' = NewFileNumber
              /\ files' = [FileSync(appended, rwfile_)
                             EXCEPT ![NewFileNumber] = EmptyFile]
              /\ LogAndApply(AddFile(NewEdit, rwfile_, size))
         ELSE /\ files' = appended
              /\ UNCHANGED << manifest, vlog_file_number_, rwfile_, ro_files_,
                              obsolete_files_ >>
      /\ UNCHANGED << lsmVars, manifest_number_, pending_outputs_, schedVars,
                      gcVars, iterator, rwfiles, sync, stopped_at, returned,
                      lost >>

\* ValueLogImpl::Sync: the active vlog file is synced and the permit given
\* back.
VLogSyncBy(t) ==
  /\ fg[t].pc = "appended"
  /\ files' = FileSync(files, rwfile_)
  /\ fg' = [fg EXCEPT ![t].pc = "synced"]
  /\ UNCHANGED << lsmVars, manifest, versionVars, schedVars, gcVars, histVars >>

\* The LSM batch with the handles is submitted to the LSM.
WriteCommitBy(t) ==
  /\ fg[t].pc = "synced"
  /\ LsmWrite(fg[t].small)
  /\ fg' = [fg EXCEPT ![t] = FgIdle]
  /\ UNCHANGED << diskVars, versionVars, schedVars, gcVars, histVars >>

\* The write path of the first foreground thread.
WriteSmall(batch) == WriteSmallBy(1, batch)
WriteLarge(batch) == WriteLargeBy(1, batch)
VLogSync == VLogSyncBy(1)
WriteCommit == WriteCommitBy(1)

(***************************************************************************)
(* Garbage collection: scheduling (db/blob_vlog_gc.cc).                    *)
(***************************************************************************)
IsFatal(st) == st # "OK" /\ st # "NonFatal"

NoGC ==
  [number |-> 0, value_batch |-> <<>>, rewrites |-> <<>>,
   total_size |-> 0, total_entries |-> 0,
   discard_size |-> 0, discard_entries |-> 0,
   obsolete_sequence |-> 0, s |-> "OK",
   \* Collect's iterator offset, Rewrite's output file and the handler's iter
   pos |-> 0, out |-> 0, iter |-> 1,
   \* the branch BackgroundGC took and the number it gave to PickGC
   manual |-> FALSE, from |-> 0]

\* MaybeScheduleGC without the test of bg_garbage_collection_.
MaybeScheduleGCNoFlag(running, err, manual, elapsed) ==
  IF shutdown_ THEN FALSE
  ELSE IF IsFatal(err) THEN FALSE
  ELSE manual \/ elapsed

\* MaybeScheduleGC without the test of bg_error_.
MaybeScheduleGCIgnoreError(running, err, manual, elapsed) ==
  IF running THEN FALSE
  ELSE IF shutdown_ THEN FALSE
  ELSE manual \/ elapsed

\* ValueLogImpl::MaybeScheduleGC, called with mutex_ held: whether a job is
\* handed to env_->Schedule, given the values of the members it reads.
MaybeScheduleGC(running, err, manual, elapsed) ==
  IF running THEN FALSE
  ELSE IF shutdown_ THEN FALSE
  ELSE IF IsFatal(err) THEN FALSE
  ELSE manual \/ elapsed

\* ValueLogImpl::ManualGC
ManualGC(number) ==
  LET schedule == MaybeScheduleGC(bg_garbage_collection_, bg_error_, TRUE,
                                  gc_interval_elapsed)
  IN  /\ manual_gc_' = TRUE
      /\ manual_gc_number' = number
      /\ bg_garbage_collection_' = (bg_garbage_collection_ \/ schedule)
      /\ bg_queue' = IF schedule THEN bg_queue + 1 ELSE bg_queue
      /\ UNCHANGED << lsmVars, diskVars, versionVars, gc_pointer_, bg_error_,
                      shutdown_, gc_interval_elapsed, waiting, options_,
                      gcVars, fg,
                      histVars >>

\* A pick that takes the first file of ro_files_ numbered >= number whether
\* or not it is obsolete.
PickGCAnyLive(number) ==
  LET above == {n \in DOMAIN ro_files_ : n >= number}
  IN  IF above = {} THEN 0
      ELSE CHOOSE n \in above : \A m \in above : n <= m

\* ValueLogImpl::PickGC: the first file of ro_files_ numbered >= number that
\* is not in obsolete_files_; 0 stands for the null pointer.
RECURSIVE PickGC(_)
PickGC(number) ==
  LET above == {n \in DOMAIN ro_files_ : n >= number}
  IN  IF above = {} THEN 0
      ELSE LET it == CHOOSE n \in above : \A m \in above : n <= m
           IN  IF it \notin DOMAIN obsolete_files_ THEN it ELSE PickGC(it + 1)

\* The end of ValueLogImpl::BGCall: the flag is cleared and MaybeScheduleGC
\* is called; queued is the number of jobs waiting at that moment.
BGCallEnd(queued, err, manual, elapsed) ==
  LET schedule == MaybeScheduleGC(FALSE, err, manual, elapsed)
  IN  /\ bg_garbage_collection_' = schedule
      /\ bg_queue' = IF schedule THEN queued + 1 ELSE queued

\* ValueLogImpl::BGCall up to the pick of BackgroundGC.
BGCall ==
  /\ bg_queue > 0
  /\ gcpc = "idle"
  /\ IF shutdown_ \/ IsFatal(bg_error_)
     THEN /\ BGCallEnd(bg_queue - 1, bg_error_, manual_gc_, gc_interval_elapsed)
          /\ UNCHANGED << gc_pointer_, manual_gc_, gcVars >>
     ELSE LET picked == IF manual_gc_ THEN PickGC(manual_gc_number)
                        ELSE PickGC(gc_pointer_)
          IN  /\ manual_gc_' = FALSE
              /\ gc_pointer_' = IF manual_gc_ THEN gc_pointer_
                                ELSE IF picked # 0 THEN picked + 1 ELSE 0
              /\ bg_queue' = bg_queue - 1
              /\ gc' = [NoGC EXCEPT !.number = picked,
                                    !.s = IF picked = 0 THEN "NonFatal" ELSE "OK",
                                    !.manual = manual_gc_,
                                    !.from = IF manual_gc_ THEN manual_gc_number
                                             ELSE gc_pointer_]
              /\ gcpc' = IF picked = 0 THEN "finish" ELSE "collect"
              /\ UNCHANGED bg_garbage_collection_
  /\ UNCHANGED << lsmVars, diskVars, versionVars, manual_gc_number, bg_error_,
                  shutdown_, gc_interval_elapsed, waiting, options_, fg,
                  histVars >>

\* The end of BackgroundGC (gc_last_run_, RecordBGError) and of BGCall.
BGFinish ==
  /\ gcpc = "finish"
  /\ bg_error_' = gc.s
  /\ LET elapsed == IF gc.number # 0 /\ ~IsFatal(gc.s) THEN FALSE
                    ELSE gc_interval_elapsed
     IN  /\ gc_interval_elapsed' = elapsed
         /\ BGCallEnd(bg_queue, gc.s, manual_gc_, elapsed)
  /\ gcpc' = "idle"
  /\ gc' = NoGC
  /\ UNCHANGED << lsmVars, diskVars, versionVars, gc_pointer_, manual_gc_,
                  manual_gc_number, shutdown_, waiting, options_, fg,
                  histVars >>

\* What the iterator actions leave alone.
IterUnchanged ==
  UNCHANGED << lsmVars, diskVars, versionVars, schedVars, gcVars, fg,
               stopped_at, returned, lost, updates, rwfiles, sync >>

\* BlobDB::NewIterator(options): the iterator sees the LSM as it is now.
NewIterator(prefetch) ==
  /\ ~iterator.open
  /\ iterator' = [NoIterator EXCEPT !.open = TRUE, !.prefetch = prefetch,
                                     !.view = ApplyWal(lsm, wal, Len(wal))]
  /\ IterUnchanged

\* Iterator::SeekToFirst and SeekToLast: the prefetch buffers are dropped.
SeekToFirst ==
  /\ iterator.open
  /\ iterator' = PlacedAt([iterator EXCEPT !.cache = <<>>],
                          FirstOf(LiveKeys(iterator.view)))
  /\ IterUnchanged

SeekToLast ==
  /\ iterator.open
  /\ iterator' = PlacedAt([iterator EXCEPT !.cache = <<>>],
                          LastOf(LiveKeys(iterator.view)))
  /\ IterUnchanged

\* Iterator::Next and Iterator::Prev of a Valid iterator.
IterNext ==
  /\ iterator.open /\ iterator.key # <<>>
  /\ iterator' = PlacedAt(iterator, KeyAfter(iterator.view, iterator.key))
  /\ IterUnchanged

IterPrev ==
  /\ iterator.open /\ iterator.key # <<>>
  /\ iterator' = PlacedAt(iterator, KeyBefore(iterator.view, iterator.key))
  /\ IterUnchanged

\* delete iter
DeleteIterator ==
  /\ iterator.open
  /\ iterator' = NoIterator
  /\ IterUnchanged

\* WaitVLogGC is entered: the caller takes mutex_ and starts to wait on
\* bg_work_cv_ while bg_garbage_collection_ is set.
WaitVLogGCCall ==
  /\ ~waiting
  /\ waiting' = TRUE
  /\ UNCHANGED << lsmVars, diskVars, versionVars, gc_pointer_, manual_gc_,
                  manual_gc_number, bg_garbage_collection_, bg_error_,
                  shutdown_, gc_interval_elapsed, bg_queue, options_, gcVars,
                  fg, histVars >>

\* WaitVLogGC returns: the waiter holds mutex_ and finds the flag cleared.
WaitVLogGCReturn ==
  /\ waiting
  /\ ~bg_garbage_collection_
  /\ waiting' = FALSE
  /\ UNCHANGED << lsmVars, diskVars, versionVars, gc_pointer_, manual_gc_,
                  manual_gc_number, bg_garbage_collection_, bg_error_,
                  shutdown_, gc_interval_elapsed, bg_queue, options_, gcVars,
                  fg, histVars >>

(***************************************************************************)
(* Garbage collection: Collect.                                            *)
(***************************************************************************)
\* Where BackgroundGC goes with the status s of Collect.
AfterCollect(st) == IF IsFatal(st) THEN "finish" ELSE "rewrite"

\* ValueLogImpl::Collect up to the creation of the file iterator.
CollectBegin ==
  /\ gcpc = "collect"
  /\ IF gc.number >= vlog_file_number_ \/ gc.number = 0
        \/ gc.number \notin DOMAIN ro_files_ \/ ~files[gc.number].exists
     THEN /\ gc' = [gc EXCEPT !.s = "NonFatal"]
          /\ gcpc' = AfterCollect("NonFatal")
     ELSE IF ~DecodeRecord(files[gc.number].data, 0, Len(files[gc.number].data)).ok
     THEN /\ gc' = [gc EXCEPT !.s = "OK"]
          /\ gcpc' = AfterCollect("OK")
     ELSE /\ gc' = [gc EXCEPT !.pos = 0]
          /\ gcpc' = "scan"
  /\ UNCHANGED << lsmVars, diskVars, versionVars, schedVars, fg, histVars >>

\* One turn of Collect's loop: the record at the iterator is looked up in
\* the LSM and classified; a live record is added to the value batch with
\* its write callback.
CollectRecord ==
  LET data == files[gc.number].data
      rec == DecodeRecord(data, gc.pos, Len(data))
      r == LsmGet(rec.key)
      current == ValueHandle(gc.number, gc.pos, rec.size)
      handle == IF r.type = kTypeValueHandle
                THEN DecodeFrom(DefaultHandle, r.value) ELSE DefaultHandle
      dead == r.status = "NotFound" \/ r.type # kTypeValueHandle \/ handle # current
      next == gc.pos + rec.size
      counted == [gc EXCEPT !.total_entries = (@ + 1),
                            !.total_size = (@ + current.size_),
                            !.s = r.status,
                            !.pos = next]
      valid == DecodeRecord(data, next, Len(data)).ok
  IN  /\ gcpc = "scan"
      /\ gc' = IF dead
               THEN [counted EXCEPT !.discard_entries = (@ + 1),
                                    !.discard_size = (@ + current.size_)]
               ELSE [counted EXCEPT
                       !.value_batch = Append(@, [key |-> rec.key, value |-> rec.value]),
                       !.rewrites = Append(@, [key_ |-> rec.key, handle_ |-> handle])]
      /\ gcpc' = IF valid THEN "scan" ELSE AfterCollect(r.status)
      /\ UNCHANGED << lsmVars, diskVars, versionVars, schedVars, fg, histVars >>

(***************************************************************************)
(* Garbage collection: Rewrite.                                            *)
(***************************************************************************)
\* Numbers beyond the counters are pairs << high, low >> that stand for
\* high * Limb + low with low < Limb.  Times is the product of a counter and
\* a factor of at most a hundred, LessEq the order of two pairs.
Limb == 65536

Times(x, k) ==
  LET low == (x % Limb) * k
  IN  << (x \div Limb) * k + low \div Limb, low % Limb >>

LessEq(p, q) == p[1] < q[1] \/ (p[1] = q[1] /\ p[2] <= q[2])

\* The product of two uint32_t operands: the low 32 bits.
UInt32Times(x, k) == << Times(x, k)[1] % Limb, Times(x, k)[2] >>

\* The quotient of a pair and a counter that is not zero; the operands of
\* Rewrite keep it at a hundred or less.
Quotient(p, t) ==
  CHOOSE q \in 0..100 : LessEq(Times(t, q), p) /\ ~LessEq(Times(t, q + 1), p)

\* The discard percentages of Rewrite, in 32-bit unsigned arithmetic.
SizeDiscardRatio(g) == Quotient(UInt32Times(g.discard_size, 100), g.total_size)
NumDiscardRatio(g) ==
  Quotient(UInt32Times(g.discard_entries, 100), g.total_entries)

\* The threshold test that skips when either percentage is below.
BelowThresholdEither(g) ==
  \/ SizeDiscardRatio(g) < options_.blob_gc_size_discard_threshold
  \/ NumDiscardRatio(g) < options_.blob_gc_num_discard_threshold

BelowThreshold(g) ==
  /\ SizeDiscardRatio(g) < options_.blob_gc_size_discard_threshold
  /\ NumDiscardRatio(g) < options_.blob_gc_num_discard_threshold

\* DBImpl::Sync: the WAL is synced.
LsmSync ==
  /\ lsm' = ApplyWal(lsm, wal, Len(wal))
  /\ lsm_seq' = LatestSequence
  /\ wal' = <<>>

\* Rewrite up to the creation of the output file: the threshold check, the
\* edit that deletes a file without live records, or the new file number.
RewriteBegin ==
  /\ gcpc = "rewrite"
  /\ gc.total_size # 0 /\ gc.total_entries # 0
  /\ IF BelowThreshold(gc)
     THEN /\ gc' = [gc EXCEPT !.s = "NonFatal"]
          /\ gcpc' = "finish"
          /\ UNCHANGED << diskVars, versionVars >>
     ELSE IF gc.discard_entries = gc.total_entries
     THEN /\ gc' = [gc EXCEPT !.obsolete_sequence = LatestSequence, !.s = "OK"]
          /\ gcpc' = "finish"
          /\ LogAndApply(DeleteFile(NewEdit, gc.number, LatestSequence))
          /\ UNCHANGED << files, vlog_file_number_, manifest_number_, rwfile_,
                          pending_outputs_ >>
     ELSE /\ vlog_file_number_ < MaxFileNumber
          /\ vlog_file_number_' = NewFileNumber
          /\ files' = [files EXCEPT ![NewFileNumber] = EmptyFile]
          /\ pending_outputs_' = pending_outputs_ \cup {NewFileNumber}
          /\ gc' = [gc EXCEPT !.out = NewFileNumber]
          /\ gcpc' = "rewrite_values"
          /\ UNCHANGED << manifest, manifest_number_, rwfile_, ro_files_,
                          obsolete_files_ >>
  /\ UNCHANGED << lsmVars, schedVars, fg, histVars >>

\* env_->NewAppendableRandomAccessFile fails: Rewrite returns its status with
\* the file number taken and nothing else changed.
RewriteCreateFails ==
  /\ gcpc = "rewrite"
  /\ gc.total_size # 0 /\ gc.total_entries # 0
  /\ ~BelowThreshold(gc)
  /\ gc.discard_entries # gc.total_entries
  /\ vlog_file_number_ < MaxFileNumber
  /\ vlog_file_number_' = NewFileNumber
  /\ gc' = [gc EXCEPT !.s = "IOError"]
  /\ gcpc' = "finish"
  /\ UNCHANGED << lsmVars, diskVars, manifest_number_, rwfile_, ro_files_,
                  obsolete_files_, pending_outputs_, schedVars, fg, histVars >>

\* "1. write to ValueLog" with a write that fails: no byte reaches the file.
\* What AddBatch, Sync, Finish and Close return is not looked at; the file
\* is added to ro_files_ with the size the builder holds.
RewriteValuesWriteFails ==
  \E size \in {0, Len(BatchBytes(gc.value_batch))} :
      /\ gcpc = "rewrite_values"
      /\ ro_files_' = IF gc.out \in DOMAIN ro_files_ THEN ro_files_
                      ELSE MapPut(ro_files_, gc.out, size)
      /\ gc' = [gc EXCEPT !.iter = 1]
      /\ gcpc' = "rewrite_lsm"
      /\ UNCHANGED << lsmVars, diskVars, vlog_file_number_, manifest_number_,
                      rwfile_, obsolete_files_, pending_outputs_, schedVars, fg,
                      histVars >>

\* Rewrite that logs its version edit together with the value rewrite.
RewriteValuesWithEdit ==
  LET bytes == BatchBytes(gc.value_batch)
  IN  /\ gcpc = "rewrite_values"
      /\ files' = FileSync(FileAppend(files, gc.out, bytes), gc.out)
      /\ LogAndApply(DeleteFile(AddFile(NewEdit, gc.out, Len(bytes)), gc.number,
                                LatestSequence))
      /\ gc' = [gc EXCEPT !.iter = 1]
      /\ gcpc' = "rewrite_lsm"
      /\ UNCHANGED << lsmVars, vlog_file_number_, manifest_number_, rwfile_,
                      pending_outputs_, schedVars, fg, histVars >>

\* "1. write to ValueLog": the value batch is finalized for the output file
\* and appended, the file is synced, finished and closed, and it is added to
\* ro_files_ in advance.
RewriteValues ==
  LET bytes == BatchBytes(gc.value_batch)
  IN  /\ gcpc = "rewrite_values"
      /\ files' = FileSync(FileAppend(files, gc.out, bytes), gc.out)
      /\ ro_files_' = IF gc.out \in DOMAIN ro_files_ THEN ro_files_
                      ELSE MapPut(ro_files_, gc.out, Len(bytes))
      /\ gc' = [gc EXCEPT !.iter = 1]
      /\ gcpc' = "rewrite_lsm"
      /\ UNCHANGED << lsmVars, manifest, vlog_file_number_, manifest_number_,
                      rwfile_, obsolete_files_, pending_outputs_, schedVars, fg, histVars >>

\* ValueLogGCWriteCallback::Callback, run by DBImpl::Write before the batch
\* is applied: the status it returns.
Callback(cb) ==
  LET r == LsmGet(cb.key_)
      current == DecodeFrom(DefaultHandle, r.value)
  IN  IF r.status # "OK" THEN r.status
      ELSE IF current # cb.handle_ THEN "InvalidArgument"
      ELSE "OK"

\* DBImpl::Write that hands the callback's status on to its caller.
DBImplWriteStatusOfCallback(st) == st

\* The status DBImpl::Write(options, updates, callback) returns when the
\* callback returned st: a batch dropped by its callback is not an error.
DBImplWriteStatus(st) == "OK"

\* DBImpl::Write that applies the batch whatever its callback returned.
DBImplWriteUngated(batch, st) == LsmWrite(batch)

\* DBImpl::Write(options, updates, callback): the callback runs first; the
\* batch is applied when it returned OK and dropped otherwise.
DBImplWrite(batch, st) ==
  IF st = "OK" THEN LsmWrite(batch) ELSE UNCHANGED lsmVars

\* RewriteLSMHandler::operator(): one record of the finalized value batch is
\* written to the LSM as a handle entry, gated by its callback.  DBImpl::Write
\* drops the batch and returns OK when the callback does not.
RewriteLSM ==
  LET handles == Finalize(gc.value_batch, gc.out, 0)
      cb == gc.rewrites[gc.iter]
      entry == [key |-> gc.value_batch[gc.iter].key, type |-> kTypeValueHandle,
                value |-> EncodeTo(handles[gc.iter]),
                want |-> LsmEntry(cb.key_).want]
  IN  /\ gcpc = "rewrite_lsm"
      /\ IF shutdown_
         THEN /\ gc' = [gc EXCEPT !.s = "IOError"]
              /\ gcpc' = "finish"
              /\ UNCHANGED lsmVars
         ELSE IF DBImplWriteStatus(Callback(cb)) # "OK"
         THEN /\ gc' = [gc EXCEPT !.s = "IOError"]
              /\ gcpc' = "finish"
              /\ UNCHANGED lsmVars
         ELSE /\ DBImplWrite(<<entry>>, Callback(cb))
              /\ gc' = [gc EXCEPT !.iter = @ + 1]
              /\ gcpc' = IF gc.iter + 1 > Len(gc.rewrites)
                         THEN "rewrite_commit" ELSE "rewrite_lsm"
      /\ UNCHANGED << diskVars, versionVars, schedVars, fg, histVars >>

\* The end of Rewrite: the LSM is synced, then "3. mark old file as obsolete".
RewriteCommit ==
  LET size == Len(files[gc.out].data)
  IN  /\ gcpc = "rewrite_commit"
      /\ LsmSync
      /\ gc' = [gc EXCEPT !.obsolete_sequence = LatestSequence, !.s = "OK"]
      /\ LogAndApply(DeleteFile(AddFile(NewEdit, gc.out, size), gc.number,
                                LatestSequence))
      /\ gcpc' = "finish"
      /\ UNCHANGED << snapshots, files, vlog_file_number_, manifest_number_,
                      rwfile_, pending_outputs_, schedVars, fg, histVars >>

\* db_->Sync() fails after the handler ran: Rewrite returns its status.
RewriteSyncFails ==
  /\ gcpc = "rewrite_commit"
  /\ gc' = [gc EXCEPT !.s = "IOError"]
  /\ gcpc' = "finish"
  /\ UNCHANGED << lsmVars, diskVars, versionVars, schedVars, fg, histVars >>

\* TEST_SYNC_POINT_MAY_RETURN("GC.Rewrite.AfterValueRewrite", s): the callback
\* returns true and Rewrite returns s, which is OK, before any handler call.
\* The output file stays in ro_files_ and in pending_outputs_; no edit is made.
RewriteReturnAfterValueRewrite ==
  /\ gcpc = "rewrite_lsm"
  /\ gc.iter = 1
  /\ gc' = [gc EXCEPT !.s = "OK"]
  /\ gcpc' = "finish"
  /\ UNCHANGED << lsmVars, diskVars, versionVars, schedVars, fg, histVars >>

\* TEST_SYNC_POINT_MAY_RETURN("GC.Rewrite.AfterLSMRewrite", s): Rewrite
\* returns the OK of db_->Sync() before the edit is built.
RewriteReturnAfterLSMRewrite ==
  /\ gcpc = "rewrite_commit"
  /\ LsmSync
  /\ gc' = [gc EXCEPT !.s = "OK"]
  /\ gcpc' = "finish"
  /\ UNCHANGED << snapshots, diskVars, versionVars, schedVars, fg, histVars >>

(***************************************************************************)
(* Snapshots, SyncLSM, the clock and obsolete-file reclamation.            *)
(***************************************************************************)
GetSnapshot ==
  /\ snapshots = {}
  /\ snapshots' = {LatestSequence}
  /\ UNCHANGED << lsm, lsm_seq, wal, diskVars, versionVars, schedVars, gcVars,
                  fg, histVars >>

ReleaseSnapshot ==
  /\ snapshots # {}
  /\ snapshots' = {}
  /\ UNCHANGED << lsm, lsm_seq, wal, diskVars, versionVars, schedVars, gcVars,
                  fg, histVars >>

\* BlobDB::SyncLSM
SyncLSM ==
  /\ wal # <<>>
  /\ LsmSync
  /\ UNCHANGED << snapshots, diskVars, versionVars, schedVars, gcVars, fg,
                  histVars >>

\* More than blob_gc_interval passes since gc_last_run_ and a foreground
\* thread calls MaybeScheduleGC.
TimerGC ==
  LET schedule == MaybeScheduleGC(bg_garbage_collection_, bg_error_, manual_gc_,
                                  TRUE)
  IN  /\ gc_interval_elapsed' = TRUE
      /\ bg_garbage_collection_' = (bg_garbage_collection_ \/ schedule)
      /\ bg_queue' = IF schedule THEN bg_queue + 1 ELSE bg_queue
      /\ gc_interval_elapsed = FALSE \/ schedule
      /\ UNCHANGED << lsmVars, diskVars, versionVars, gc_pointer_, manual_gc_,
                      manual_gc_number, bg_error_, shutdown_, waiting,
                      options_, gcVars,
                      fg, histVars >>

\* The value log starts to shut down: shutdown_ is set.
Shutdown ==
  /\ ~shutdown_
  /\ shutdown_' = TRUE
  /\ UNCHANGED << lsmVars, diskVars, versionVars, gc_pointer_, manual_gc_,
                  manual_gc_number, bg_garbage_collection_, bg_error_,
                  gc_interval_elapsed, bg_queue, waiting, options_, gcVars,
                  fg,
                  histVars >>

\* The smallest sequence a reader may still observe.
SmallestSnapshot ==
  IF snapshots = {} THEN LatestSequence
  ELSE CHOOSE q \in snapshots : \A r \in snapshots : q <= r

\* Removable with the sequence test off by one.
RemovableAtSequence ==
  { n \in DOMAIN obsolete_files_ :
      obsolete_files_[n] <= SmallestSnapshot /\ n \notin pending_outputs_ }

\* The obsolete files ValueLogImpl::RemoveObsoleteFiles removes.
Removable ==
  { n \in DOMAIN obsolete_files_ :
      obsolete_files_[n] < SmallestSnapshot /\ n \notin pending_outputs_ }

\* BlobDB::RemoveObsoleteBlob: the removable files are deleted from disk and
\* dropped from the version.  The synced length of a removed file is kept
\* as history.
RemoveObsoleteBlob ==
  /\ Removable # {}
  /\ files' = [n \in FileNumbers |->
                 IF n \in Removable
                 THEN [exists |-> FALSE, data |-> <<>>, synced |-> files[n].synced]
                 ELSE files[n]]
  /\ obsolete_files_' = MapErase(obsolete_files_, Removable)
  /\ ro_files_' = MapErase(ro_files_, Removable)
  /\ manifest' = [ro |-> MapErase(manifest.ro, Removable),
                  obsolete |-> MapErase(manifest.obsolete, Removable)]
  /\ UNCHANGED << lsmVars, vlog_file_number_, manifest_number_, rwfile_,
                  pending_outputs_, schedVars, gcVars, fg, histVars >>

(***************************************************************************)
(* Stop and reopen: ValueLogImpl::Recover with ValidateAndTruncate.        *)
(***************************************************************************)
\* ValidateAndTruncate: the length of the longest prefix of data that
\* decodes as a sequence of whole records.
RECURSIVE ValidPrefix(_, _)
ValidPrefix(data, off) ==
  LET r == DecodeRecord(data, off, Len(data))
  IN  IF r.ok THEN ValidPrefix(data, off + r.size) ELSE off

Truncate(f, len) ==
  [exists |-> TRUE, data |-> SubBytes(f.data, 1, len),
   synced |-> IF f.synced < len THEN f.synced ELSE len]

\* A recovery that validates but leaves a torn tail in place.
ValidateAndKeepTail(f) == f

ValidateAndTruncate(f) == Truncate(f, ValidPrefix(f.data, 0))

Max(S) == CHOOSE n \in S : \A m \in S : m <= n

\* Where a GC run stands with respect to its output file: before the file
\* is in ro_files_, between that and the version edit, or after the edit.
StopPoint(pc) ==
  IF pc = "idle" THEN "idle"
  ELSE IF pc \in {"collect", "scan", "rewrite", "rewrite_values"} THEN "before"
  ELSE IF pc \in {"rewrite_lsm", "rewrite_commit"} THEN "between"
  ELSE "after"

\* The process stops and the database is opened again.  keep is the number
\* of unsynced LSM commits that survive, cut the length the active vlog file
\* has on disk afterwards.  Recover replays the manifest, takes a new
\* manifest number and validates the vlog files the version does not know.
\* The last of them is reused as the active file when it is at most half
\* full; the others are added to the version when an LSM handle refers to
\* them and deleted otherwise.
Restart(keep, cut) ==
  \E db \in {ApplyWal(lsm, wal, keep)} :
  \E untracked \in {{n \in FileNumbers \ DOMAIN manifest.ro : files[n].exists}} :
  \E valid \in {[n \in untracked |->
                   ValidateAndTruncate(IF n = rwfile_ THEN Truncate(files[n], cut)
                                       ELSE files[n])]} :
  LET referenced ==
        { HandleOf(db[k]).table_ : k \in {x \in Keys : db[x].type = kTypeValueHandle} }
      last == IF untracked = {} THEN 0 ELSE Max(untracked)
      reuse == last # 0 /\ 2 * Len(valid[last].data) <= blob_max_file_size
      toro == {n \in untracked : (n = last /\ ~reuse) \/ (n # last /\ n \in referenced)}
      todelete == {n \in untracked : n # last /\ n \notin referenced}
      added == [n \in toro |-> Len(valid[n].data)]
      mnum == vlog_file_number_ + 1
      active == IF reuse THEN last ELSE mnum + 1
  IN  /\ active <= MaxFileNumber
      /\ mnum <= MaxFileNumber
      /\ lsm' = db
      /\ lsm_seq' = lsm_seq + keep
      /\ wal' = <<>>
      /\ snapshots' = {}
      /\ files' = [n \in FileNumbers |->
                     IF n \in toro
                     THEN [valid[n] EXCEPT !.synced = Len(valid[n].data)]
                     ELSE IF n \in todelete
                     THEN [exists |-> FALSE, data |-> <<>>, synced |-> files[n].synced]
                     ELSE IF n \in untracked THEN valid[n]
                     ELSE IF ~reuse /\ n = active THEN EmptyFile
                     ELSE files[n]]
      /\ manifest' = [manifest EXCEPT !.ro = MapMerge(@, added)]
      /\ ro_files_' = MapMerge(manifest.ro, added)
      /\ obsolete_files_' = manifest.obsolete
      /\ manifest_number_' = mnum
      /\ vlog_file_number_' = IF reuse THEN mnum ELSE mnum + 1
      /\ rwfile_' = active
      /\ pending_outputs_' = {}
      /\ gc_pointer_' = 0
      /\ manual_gc_' = FALSE
      /\ manual_gc_number' = 0
      /\ bg_garbage_collection_' = FALSE
      /\ bg_error_' = "OK"
      /\ shutdown_' = FALSE
      /\ gc_interval_elapsed' = FALSE
      /\ bg_queue' = 0
      /\ waiting' = FALSE
      /\ options_' = options_
      /\ gcpc' = "idle"
      /\ gc' = NoGC
      /\ fg' = AllIdle
      /\ stopped_at' = StopPoint(gcpc)
      /\ iterator' = NoIterator
      /\ rwfiles' = << NewVLogRWFile >>
      /\ sync' = NoLocks

\* A stop at any moment: the LSM keeps its synced commits and any number of
\* the later ones in order; the active vlog file keeps its synced bytes and
\* either loses or keeps the record appended since.
Crash ==
  \E keep \in 0..Len(wal) :
    \E cut \in {files[rwfile_].synced, Len(files[rwfile_].data)} :
      /\ Restart(keep, cut)
      /\ UNCHANGED << returned, lost, updates >>

\* Rewrite called with total_entries = 0 or total_size = 0: the percentage
\* is a division by zero.  The build either traps, which stops the process,
\* or yields 0, which is below the thresholds.
RewriteDivideByZero ==
  /\ gcpc = "rewrite"
  /\ gc.total_size = 0 \/ gc.total_entries = 0
  /\ \/ /\ Restart(Len(wal), Len(files[rwfile_].data))
        /\ UNCHANGED << returned, lost, updates >>
     \/ /\ gc' = [gc EXCEPT !.s = "NonFatal"]
        /\ gcpc' = "finish"
        /\ UNCHANGED << lsmVars, diskVars, versionVars, schedVars, fg,
                        histVars >>

\* The values put directly into the value log: records of two sizes.
RecoverValues == { ShortValue, <<8, 8>> }

\* ValueLogImpl::Put: one record is appended to the active file and its
\* handle returned; the file rolls over as in Write.
VLogPut(key, value) ==
  LET base == Len(files[rwfile_].data)
      handle == ValueHandle(rwfile_, base, SizeOf(key, value))
      appended == FileAppend(files, rwfile_, EncodeRecord(key, value))
      size == Len(appended[rwfile_].data)
      rec == [key_ |-> key, value_ |-> value, handle_ |-> handle]
  IN  /\ fg = AllIdle
      /\ Len(returned) < MaxPuts
      /\ returned' = Append(returned, rec)
      /\ lost' = IF Len(lost) = 1 THEN Append(lost, rec) ELSE <<>>
      /\ IF size >= blob_max_file_size
         THEN /\ vlog_file_number_ < MaxFileNumber
              /\ vlog_file_number_' = NewFileNumber
              /\ rwfile_' = NewFileNumber
              /\ files' = [FileSync(appended, rwfile_)
                             EXCEPT ![NewFileNumber] = EmptyFile]
              /\ LogAndApply(AddFile(NewEdit, rwfile_, size))
         ELSE /\ files' = appended
              /\ UNCHANGED << manifest, vlog_file_number_, rwfile_, ro_files_,
                              obsolete_files_ >>
      /\ UNCHANGED << lsmVars, manifest_number_, pending_outputs_, schedVars,
                      gcVars, fg, iterator, rwfiles, sync, stopped_at,
                      updates >>

\* The value log is closed and opened again with its files intact.
Reopen ==
  /\ Restart(Len(wal), Len(files[rwfile_].data))
  /\ UNCHANGED << returned, lost, updates >>

\* The value log is closed, the active file is cut at a byte offset inside
\* its last record, and the value log is opened again.
CutAndReopen ==
  /\ returned # <<>>
  /\ Len(lost) # 1
  /\ LET last == returned[Len(returned)]
     IN  /\ last.handle_.table_ = rwfile_
         /\ last.handle_.offset_ + last.handle_.size_ = Len(files[rwfile_].data)
         /\ \E cut \in last.handle_.offset_ ..
                         (last.handle_.offset_ + last.handle_.size_ - 1) :
              Restart(Len(wal), cut)
         /\ returned' = SubSeq(returned, 1, Len(returned) - 1)
         /\ lost' = <<last>>
         /\ UNCHANGED updates

(***************************************************************************)
(* The specification.                                                      *)
(***************************************************************************)
InitAt(options, pc, g) ==
  /\ lsm = [k \in Keys |-> AbsentEntry]
  /\ lsm_seq = 0
  /\ wal = <<>>
  /\ snapshots = {}
  /\ files = [n \in FileNumbers |-> IF n = FirstVLogNumber THEN EmptyFile ELSE NoFile]
  /\ manifest = [ro |-> EmptyMap, obsolete |-> EmptyMap]
  /\ vlog_file_number_ = FirstVLogNumber
  /\ manifest_number_ = FirstVLogNumber - 1
  /\ rwfile_ = FirstVLogNumber
  /\ ro_files_ = EmptyMap
  /\ obsolete_files_ = EmptyMap
  /\ pending_outputs_ = {}
  /\ gc_pointer_ = 0
  /\ manual_gc_ = FALSE
  /\ manual_gc_number = 0
  /\ bg_garbage_collection_ = FALSE
  /\ bg_error_ = "OK"
  /\ shutdown_ = FALSE
  /\ gc_interval_elapsed = FALSE
  /\ bg_queue = 0
  /\ waiting = FALSE
  /\ options_ = options
  /\ gcpc = pc
  /\ gc = g
  /\ fg = AllIdle
  /\ stopped_at = "never"
  /\ returned = <<>>
  /\ lost = <<>>
  /\ updates = <<>>
  /\ iterator = NoIterator
  /\ rwfiles = << NewVLogRWFile >>
  /\ sync = NoLocks

InitWith(options) == InitAt(options, "idle", NoGC)

Init == InitWith(DefaultOptions)

\* The foreground write path, called with the batches of B.
Foreground(B) ==
  \/ \E b \in B : WriteSmall(b) /\ UNCHANGED updates
  \/ \E b \in B : WriteLarge(b) /\ UNCHANGED updates
  \/ VLogSync
  \/ WriteCommit

(***************************************************************************)
(* The locks.  The code of the GC thread and of the foreground threads is  *)
(* reduced to its lock operations, its accesses to the members shared by   *)
(* the threads and its calls into the LSM; a branch is a free choice.      *)
(***************************************************************************)
I(op, a, to) == [op |-> op, a |-> a, to |-> to]

\* BGCall and what it calls: BackgroundGC, PickGC, Collect, Rewrite,
\* RecordBGError and MaybeScheduleGC.
BGCallCode ==
  << I("Wait", "BGWork", {2}),
     \* BGCall
     I("Lock", "mutex_", {3}),
     I("Read", "bg_error_", {4, 43}),
     I("Unlock", "mutex_", {5}),
     \* BackgroundGC: the pick
     I("WLock", "rwlock_", {6}),
     I("Read", "manual_gc_", {7, 9}),
     I("Read", "manual_gc_number", {8}),
     I("Write", "manual_gc_", {10}),
     I("Write", "gc_pointer_", {10}),
     I("WUnlock", "rwlock_", {11, 14}),
     \* RecordBGError of the empty pick, and the return
     I("Lock", "mutex_", {12}),
     I("Write", "bg_error_", {13}),
     I("Unlock", "mutex_", {42}),
     \* Collect
     I("RLock", "rwlock_", {15, 16}),
     I("RUnlock", "rwlock_", {20}),
     I("RUnlock", "rwlock_", {17, 18}),
     I("Call", "Get", {17, 18}),
     I("RLock", "rwlock_", {19}),
     I("RUnlock", "rwlock_", {20, 40}),
     \* Rewrite: the thresholds, the file without live records
     I("Work", "thresholds", {21, 25, 38}),
     I("Call", "LatestSequence", {22}),
     I("WLock", "rwlock_", {23}),
     I("Write", "obsolete_files_", {24}),
     I("WUnlock", "rwlock_", {38, 40}),
     \* Rewrite: the output file
     I("WLock", "rwlock_", {26}),
     I("Write", "vlog_file_number_", {27}),
     I("WUnlock", "rwlock_", {28, 40}),
     I("Work", "AddBatch", {29}),
     I("WLock", "rwlock_", {30}),
     I("Write", "ro_files_", {31}),
     I("WUnlock", "rwlock_", {32, 33, 38}),
     \* Rewrite: the LSM and the edit
     I("Call", "Write", {32, 33, 40}),
     I("Call", "Sync", {34, 38, 40}),
     I("Call", "LatestSequence", {35}),
     I("WLock", "rwlock_", {36}),
     I("Write", "obsolete_files_", {37}),
     I("WUnlock", "rwlock_", {38, 40}),
     \* BackgroundGC: gc_last_run_ and RecordBGError
     I("Lock", "mutex_", {39}),
     I("Unlock", "mutex_", {40}),
     I("Lock", "mutex_", {41}),
     I("Unlock", "mutex_", {42}),
     \* BGCall after BackgroundGC
     I("Lock", "mutex_", {43}),
     I("Write", "bg_garbage_collection_", {44}),
     I("Read", "manual_gc_", {45}),
     I("Unlock", "mutex_", {1}) >>

\* A foreground thread: ManualGC, a Get or a write to the value log.
ForegroundCode ==
  << I("Work", "choose", {2, 9, 12}),
     \* ManualGC
     I("WLock", "rwlock_", {3}),
     I("Write", "manual_gc_", {4}),
     I("Write", "manual_gc_number", {5}),
     I("WUnlock", "rwlock_", {6}),
     I("Lock", "mutex_", {7}),
     I("Read", "manual_gc_", {8}),
     I("Unlock", "mutex_", {1}),
     \* Get
     I("RLock", "rwlock_", {10}),
     I("Read", "ro_files_", {11}),
     I("RUnlock", "rwlock_", {1}),
     \* Write with a rollover
     I("WLock", "rwlock_", {13}),
     I("Write", "ro_files_", {14}),
     I("WUnlock", "rwlock_", {1}) >>

\* Collect that keeps rwlock_ while it reads the file and calls Get.
CodeOfHoldingRLock(t) ==
  IF t = GCThread
  THEN [BGCallCode EXCEPT ![16] = I("Work", "NewVLogFileIterator", {17, 18})]
  ELSE ForegroundCode

CodeOf(t) == IF t = GCThread THEN BGCallCode ELSE ForegroundCode

\* The instruction thread t stands at.
At(t) == CodeOf(t)[sync.pc[t]]

\* Thread t runs the instruction it stands at.  port::Mutex and RWSpinLock:
\* a lock is taken when it is free; an unlock gives up what the thread
\* holds.
LockStep(t) ==
  LET ins == At(t)
  IN  /\ CASE ins.op = "Lock" -> sync.mutex_ = {}
            [] ins.op = "WLock" -> sync.writer = {} /\ sync.readers = {}
            [] ins.op = "RLock" -> sync.writer = {}
            [] OTHER -> TRUE
      /\ \E to \in ins.to :
           sync' = [sync EXCEPT
                      !.pc[t] = to,
                      !.mutex_ = CASE ins.op = "Lock" -> {t}
                                   [] ins.op = "Unlock" -> @ \ {t}
                                   [] OTHER -> @,
                      !.writer = CASE ins.op = "WLock" -> {t}
                                   [] ins.op = "WUnlock" -> @ \ {t}
                                   [] OTHER -> @,
                      !.readers = CASE ins.op = "RLock" -> @ \cup {t}
                                    [] ins.op = "RUnlock" -> @ \ {t}
                                    [] OTHER -> @]
      /\ UNCHANGED << lsmVars, diskVars, versionVars, schedVars, gcVars, fg,
                      stopped_at, returned, lost, updates, iterator, rwfiles >>

(***************************************************************************)
(* VLogRWFile: the reference count of the file objects.                    *)
(***************************************************************************)
\* What the steps on VLogRWFile objects leave alone.
RWUnchanged ==
  UNCHANGED << lsmVars, diskVars, versionVars, schedVars, gcVars, fg,
               stopped_at, returned, lost, updates, iterator, sync >>

\* VLogRWFile::NewIterator on the current file: Ref() and an iterator whose
\* cleanup is UnrefCleanup.
RWFileNewIterator ==
  \E i \in {Len(rwfiles)} :
    /\ rwfiles[i].current
    /\ rwfiles[i].iterators < MaxIterators
    /\ rwfiles' = [rwfiles EXCEPT ![i] = Ref([@ EXCEPT !.iterators = @ + 1])]
    /\ RWUnchanged

\* The value log finishes the current file: Finish() and the first half of
\* Unref(), the decrement.
RWFileFinish ==
  \E i \in {Len(rwfiles)} :
    /\ rwfiles[i].current
    /\ rwfiles' = [rwfiles EXCEPT ![i] =
                     UnrefDecrement([Finish(@) EXCEPT !.current = FALSE,
                                                      !.building = TRUE])]
    /\ RWUnchanged

\* The second half of that Unref(), the test of refs_, after which the value
\* log makes the next file and takes its reference.
RWFileRollover ==
  \E i \in {Len(rwfiles)} :
    /\ rwfiles[i].building
    /\ rwfiles' = LET done == [rwfiles EXCEPT ![i] =
                                [UnrefTest(@) EXCEPT !.building = FALSE]]
                  IN  IF i < MaxRWFiles THEN Append(done, NewVLogRWFile)
                      ELSE done
    /\ RWUnchanged

\* An iterator is deleted: UnrefCleanup runs the decrement of Unref() ...
RWFileCleanupDecrement ==
  \E i \in 1..Len(rwfiles) :
    /\ rwfiles[i].iterators > 0
    /\ rwfiles[i].unref < MaxIterators
    /\ rwfiles' = [rwfiles EXCEPT ![i] =
                     UnrefDecrement([@ EXCEPT !.iterators = @ - 1])]
    /\ RWUnchanged

\* ... and then its test of refs_.
RWFileCleanupTest ==
  \E i \in 1..Len(rwfiles) :
    /\ rwfiles[i].unref > IF rwfiles[i].building THEN 1 ELSE 0
    /\ rwfiles' = [rwfiles EXCEPT ![i] = UnrefTest(@)]
    /\ RWUnchanged

\* The steps of the GC thread.
GCRun ==
  \/ BGCall
  \/ CollectBegin
  \/ CollectRecord
  \/ RewriteBegin
  \/ RewriteDivideByZero
  \/ RewriteValues
  \/ RewriteLSM
  \/ RewriteCommit
  \/ BGFinish

\* Writes, manual GC and obsolete-file reclamation.
Next ==
  \/ Foreground(UserBatches)
  \/ ManualGC(0)
  \/ GCRun
  \/ RemoveObsoleteBlob

Spec == Init /\ [][Next]_vars

\* Batches that overwrite the first key with a large and with a short value.
OverwriteBatches ==
  { <<o>> : o \in [op : {"Put"}, key : {<<1>>}, value : {ShortValue, LargeValue}] }

\* Batches that only fill the vlog files.
FillBatches == { <<[op |-> "Put", key |-> <<1>>, value |-> LargeValue]>> }

\* Scheduling: manual GC of any file, the timer, and the GC thread.
NextSched ==
  \/ \E b \in FillBatches : WriteLarge(b) /\ UNCHANGED updates
  \/ VLogSync
  \/ WriteCommit
  \/ \E n \in {0, FirstVLogNumber} : ManualGC(n)
  \/ TimerGC
  \/ GCRun

SpecSched == Init /\ [][NextSched]_vars

\* Reclamation under snapshots.
NextSnapshot ==
  \/ Foreground(OverwriteBatches)
  \/ GetSnapshot
  \/ ReleaseSnapshot
  \/ ManualGC(0)
  \/ GCRun
  \/ RemoveObsoleteBlob

SpecSnapshot == Init /\ [][NextSnapshot]_vars

\* Stops and reopens.
NextCrash ==
  \/ Foreground(OverwriteBatches)
  \/ SyncLSM
  \/ ManualGC(0)
  \/ GCRun
  \/ RemoveObsoleteBlob
  \/ Crash

SpecCrash == Init /\ [][NextCrash]_vars

\* Batches of one or two entries with values on both sides of the threshold.
DivideOps ==
  [op : {"Put"}, key : Keys, value : {NearValue, LargeValue}]
    \cup [op : {"Put"}, key : {<<1>>}, value : {ShortValue}]
    \cup [op : {"Delete"}, key : {<<1>>}, value : {<<>>}]

DivideBatches == { <<o>> : o \in DivideOps } \cup { <<o, p>> : o, p \in DivideOps }

\* The foreground write path with the batch of each Write recorded.
ForegroundRecorded(B) ==
  \/ \E b \in B : WriteSmall(b) /\ updates' = b
  \/ \E b \in B : WriteLarge(b) /\ updates' = b
  \/ VLogSync
  \/ WriteCommit

NextDivide == ForegroundRecorded(DivideBatches)

SpecDivide == Init /\ [][NextDivide]_vars

\* Several foreground threads write at the same time; no GC runs.
NextConcurrent ==
  \/ \E t \in Writers : \E b \in UserBatches :
       WriteSmallBy(t, b) /\ UNCHANGED updates
  \/ \E t \in Writers : \E b \in UserBatches :
       WriteLargeBy(t, b) /\ UNCHANGED updates
  \/ \E t \in Writers : VLogSyncBy(t)
  \/ \E t \in Writers : WriteCommitBy(t)

SpecConcurrent == Init /\ [][NextConcurrent]_vars

\* The key the callback of TestWriteCallback2 reads.
CallbackKey == <<2>>

\* Batches of one or two small entries on the first key.
CallbackOps ==
  [op : {"Put"}, key : {<<1>>}, value : {ShortValue, NearValue}]
    \cup [op : {"Delete"}, key : {<<1>>}, value : {<<>>}]

CallbackBatches == { <<o>> : o \in CallbackOps } \cup { <<o, p>> : o, p \in CallbackOps }

\* Writes and deletes of the callback's key.
CallbackKeyBatches ==
  { <<[op |-> "Put", key |-> CallbackKey, value |-> ShortValue]>>,
    <<[op |-> "Delete", key |-> CallbackKey, value |-> <<>>]>> }

\* Write(options, updates, callback) with TestWriteCallback2: the callback
\* returns the status of Get(CallbackKey).
WriteWithCallback(batch) ==
  /\ fg[1].pc = "idle"
  /\ DivideWriteBatch(batch).large = <<>>
  /\ DBImplWrite(FillHandles(DivideWriteBatch(batch).small, <<>>),
                 LsmGet(CallbackKey).status)
  /\ updates' = batch
  /\ UNCHANGED << diskVars, versionVars, schedVars, gcVars, fg, iterator, rwfiles,
                  sync,
                  stopped_at,
                  returned, lost >>

NextCallback ==
  \/ \E b \in CallbackKeyBatches : WriteSmall(b) /\ updates' = <<>>
  \/ \E b \in CallbackBatches : WriteWithCallback(b)

SpecCallback == Init /\ [][NextCallback]_vars

\* Writes that fill a file with the records of two keys and delete one.
ShutdownBatches ==
  { <<[op |-> "Put", key |-> <<1>>, value |-> LargeValue]>>,
    <<[op |-> "Put", key |-> <<2>>, value |-> LargeValue]>>,
    <<[op |-> "Delete", key |-> <<1>>, value |-> <<>>]>> }

\* GC scheduled by hand and by the timer, with a shutdown at any moment.
NextShutdown ==
  \/ Foreground(ShutdownBatches)
  \/ ManualGC(0)
  \/ TimerGC
  \/ GCRun
  \/ Shutdown

SpecShutdown == Init /\ [][NextShutdown]_vars

\* The numbers a manual GC is asked to start from.
ManualNumbers == {0, FirstVLogNumber + 1}

\* GC runs that may return at the sync points of Rewrite.
NextSyncPoint ==
  \/ \E b \in FillBatches : WriteLarge(b) /\ UNCHANGED updates
  \/ VLogSync
  \/ WriteCommit
  \/ \E n \in ManualNumbers : ManualGC(n)
  \/ TimerGC
  \/ GCRun
  \/ RewriteReturnAfterValueRewrite
  \/ RewriteReturnAfterLSMRewrite

SpecSyncPoint == Init /\ [][NextSyncPoint]_vars

\* Both keys are put with a large value and the first key is overwritten
\* with a short one.
RewriteBatches ==
  { <<[op |-> "Put", key |-> <<1>>, value |-> LargeValue]>>,
    <<[op |-> "Put", key |-> <<2>>, value |-> LargeValue]>>,
    <<[op |-> "Put", key |-> <<1>>, value |-> ShortValue]>> }

\* A value log opened with GC thresholds of 0: every file that GC collects
\* and that holds a live record is rewritten.
NextRewrite ==
  \/ Foreground(RewriteBatches)
  \/ ManualGC(0)
  \/ GCRun

SpecRewrite == InitWith(ZeroThresholds) /\ [][NextRewrite]_vars

\* Files are finished and replaced while iterators on them are made and
\* deleted by other threads.
NextRWFile ==
  \/ RWFileNewIterator
  \/ RWFileFinish
  \/ RWFileRollover
  \/ RWFileCleanupDecrement
  \/ RWFileCleanupTest

SpecRWFile == Init /\ [][NextRWFile]_vars

\* GC runs that rewrite, with the failures of the file system and of the
\* LSM, a shutdown and the returns at the sync points.
NextFault ==
  \/ \E b \in RewriteBatches : WriteLarge(b) /\ UNCHANGED updates
  \/ VLogSync
  \/ WriteCommit
  \/ ManualGC(0)
  \/ GCRun
  \/ Shutdown
  \/ RewriteCreateFails
  \/ RewriteValuesWriteFails
  \/ RewriteSyncFails
  \/ RewriteReturnAfterValueRewrite
  \/ RewriteReturnAfterLSMRewrite

SpecFault == InitWith(ZeroThresholds) /\ [][NextFault]_vars

\* The counters Collect can leave for a file: a record has at least one
\* byte, dead records are among the records, and the live records have the
\* bytes that are not dead.  The values lie on both sides of the point where
\* a hundred times a counter passes 32 bits.
CounterValues == {1, 2, 3, 42949672, 42949673, 85899346, 2147483647}

Counters ==
  { c \in [total_size : CounterValues, discard_size : {0} \cup CounterValues,
           total_entries : CounterValues,
           discard_entries : {0} \cup CounterValues] :
      /\ c.discard_size <= c.total_size
      /\ c.discard_entries <= c.total_entries
      /\ c.discard_entries <= c.discard_size
      /\ c.total_entries - c.discard_entries <= c.total_size - c.discard_size
      /\ (c.discard_entries = 0) = (c.discard_size = 0)
      /\ (c.discard_entries = c.total_entries) = (c.discard_size = c.total_size) }

Collected(c) ==
  [NoGC EXCEPT !.number = FirstVLogNumber,
               !.total_size = c.total_size,
               !.discard_size = c.discard_size,
               !.total_entries = c.total_entries,
               !.discard_entries = c.discard_entries]

\* Rewrite is entered with the counters of a collected file.
InitCollected == \E c \in Counters : InitAt(DefaultOptions, "rewrite", Collected(c))

\* The threshold test of Rewrite alone: it returns NonFatal or goes on.
RewriteThresholds ==
  /\ gcpc = "rewrite"
  /\ gc.total_size # 0 /\ gc.total_entries # 0
  /\ gc' = [gc EXCEPT !.s = IF BelowThreshold(gc) THEN "NonFatal" ELSE "OK"]
  /\ gcpc' = IF BelowThreshold(gc) THEN "finish" ELSE "rewrite_checked"
  /\ UNCHANGED << lsmVars, diskVars, versionVars, schedVars, fg, histVars >>

SpecThresholds == InitCollected /\ [][RewriteThresholds]_vars

\* The GC thread and the foreground threads at their locks.  A thread that
\* can run again and again does run: the scheduler is fair and a lock that
\* is free again and again is taken by each thread that waits for it.
NextLocks == \E t \in LockThreads : LockStep(t)

SpecLocks ==
  /\ Init /\ [][NextLocks]_vars
  /\ \A t \in LockThreads : SF_vars(LockStep(t))

\* The same with a timer that keeps expiring and a GC thread that runs its
\* jobs: weak fairness of GCRun, written with the condition under which the
\* GC thread has a step to take.
SpecSyncPointFair ==
  /\ SpecSyncPoint
  /\ WF_vars(TimerGC)
  /\ \/ []<>(gcpc = "idle" /\ bg_queue = 0)
     \/ []<><<GCRun>>_vars

\* The first key is put with a large value and with inline bytes that look
\* like a handle; the second key is put with a large value and deleted.
IterBatches ==
  { <<[op |-> "Put", key |-> <<1>>, value |-> LargeValue]>>,
    <<[op |-> "Put", key |-> <<1>>, value |-> HandleBytes]>>,
    <<[op |-> "Put", key |-> <<2>>, value |-> LargeValue]>>,
    <<[op |-> "Delete", key |-> <<2>>, value |-> <<>>]>> }

\* A reader that iterates between the writes and the GC runs: an iterator
\* is made when no write and no GC run is under way and is deleted before
\* the next one starts.
NextIter ==
  \/ ~iterator.open /\ Foreground(IterBatches)
  \/ ~iterator.open /\ ManualGC(0)
  \/ ~iterator.open /\ GCRun
  \/ \E prefetch \in BOOLEAN :
       fg = AllIdle /\ gcpc = "idle" /\ NewIterator(prefetch)
  \/ SeekToFirst
  \/ SeekToLast
  \/ IterNext
  \/ IterPrev
  \/ DeleteIterator

SpecIter == Init /\ [][NextIter]_vars

\* Scheduling with a background thread that runs every job it is given.
SpecSchedFair == SpecSched /\ WF_vars(GCRun)

\* A thread that calls ManualGC and then WaitVLogGC, and calls ManualGC no
\* more while it waits; the timer and the writers go on.
NextWait ==
  \/ \E b \in FillBatches : WriteLarge(b) /\ UNCHANGED updates
  \/ VLogSync
  \/ WriteCommit
  \/ ~waiting /\ ManualGC(0)
  \/ TimerGC
  \/ GCRun
  \/ WaitVLogGCCall
  \/ WaitVLogGCReturn

\* The background thread runs the jobs it is given; a waiter that is
\* signalled again and again gets mutex_ at some time.
SpecWait ==
  Init /\ [][NextWait]_vars /\ WF_vars(GCRun) /\ SF_vars(WaitVLogGCReturn)

\* Records put directly into the value log, with reopens and torn tails.
NextRecover ==
  \/ \E k \in Keys : \E v \in RecoverValues : VLogPut(k, v)
  \/ Reopen
  \/ CutAndReopen

SpecRecover == Init /\ [][NextRecover]_vars

(***************************************************************************)
(* Properties.                                                             *)
(***************************************************************************)
\* A step of the GC thread.
GCStep == gcpc' # gcpc \/ gc' # gc

\* C1: for every key, Get(key) returns the value of the last successful
\* write to that key, or NotFound if the last successful operation was a
\* Delete, whatever writes and GC runs were interleaved.
C1_GetReturnsLastWrite ==
  \A k \in Keys : Get(k) = LsmEntry(k).want

\* C2: when the user has overwritten or deleted key K between Collect
\* classifying K's record as live and the GC's handle rewrite of K (the
\* LSM entry of K is no longer the handle Collect saw), the rewrite is
\* dropped: the step of RewriteLSM leaves the entry of K as the user wrote it.
C2_UserWriteWins ==
  [][ (gcpc = "rewrite_lsm" /\ GCStep)
        => \A k \in Keys :
             (/\ k = gc.rewrites[gc.iter].key_
              /\ ~(/\ LsmEntry(k).type = kTypeValueHandle
                   /\ LsmEntry(k).value = EncodeTo(gc.rewrites[gc.iter].handle_)))
               => LsmEntry(k)' = LsmEntry(k) ]_vars

\* C3: while a GC run is in progress, Get(key) of every key whose last Put
\* succeeded returns that last value.
C3_ReadableDuringGC ==
  gcpc # "idle"
    => \A k \in Keys :
         LsmEntry(k).want.status = "OK" => Get(k) = LsmEntry(k).want

\* C4: no key's current handle points into a file of obsolete_files_.
C4_NoHandleIntoObsolete ==
  \A k \in Keys :
    LsmEntry(k).type = kTypeValueHandle
      => HandleOf(LsmEntry(k)).table_ \notin DOMAIN obsolete_files_

\* C5: RemoveObsoleteBlob removes a file only if it is in obsolete_files_
\* with a sequence strictly below every observable sequence (every held
\* snapshot, or the latest LSM sequence when none is held) and not in
\* pending_outputs_; a removed file leaves obsolete_files_ and every other
\* file, with its entry of obsolete_files_, stays in place.
C5_RemoveOnlyUnobservable ==
  [][ RemoveObsoleteBlob
        => \A n \in FileNumbers :
             IF files[n].exists /\ ~files'[n].exists
             THEN /\ n \in DOMAIN obsolete_files_
                  /\ \A q \in snapshots : obsolete_files_[n] < q
                  /\ snapshots = {} => obsolete_files_[n] < LatestSequence
                  /\ n \notin pending_outputs_
                  /\ n \notin DOMAIN obsolete_files_'
             ELSE /\ files'[n] = files[n]
                  /\ n \in DOMAIN obsolete_files_
                       => /\ n \in DOMAIN obsolete_files_'
                          /\ obsolete_files_'[n] = obsolete_files_[n] ]_vars

\* A file has been removed while a snapshot is held.
C5_Witness ==
  /\ stopped_at = "never"
  /\ snapshots # {}
  /\ \E n \in FileNumbers : ~files[n].exists /\ files[n].synced > 0

\* C6: at most one GC job is scheduled or executing, and
\* bg_garbage_collection_ is true exactly while one is.
C6_OneGCJob ==
  /\ bg_queue + (IF gcpc = "idle" THEN 0 ELSE 1) <= 1
  /\ bg_garbage_collection_ <=> (bg_queue > 0 \/ gcpc # "idle")

\* ManualGC was called and the timer fired while a GC run is executing.
C6_Witness ==
  /\ gcpc = "scan"
  /\ manual_gc_
  /\ gc_interval_elapsed
  /\ bg_queue = 0

\* C7: an LSM entry of type Handle becomes visible only when the byte range
\* it references has been synced to its vlog file, in the foreground write
\* path and in a GC run alike.
C7_SyncedBeforeVisible ==
  [][ \A k \in Keys :
        (LsmEntry(k)' # LsmEntry(k) /\ LsmEntry(k)'.type = kTypeValueHandle)
          => LET h == HandleOf(LsmEntry(k)')
             IN  h.offset_ + h.size_ <= files[h.table_].synced ]_vars

\* A handle written by the foreground and a handle rewritten by the GC are
\* visible.
C7_Witness ==
  /\ \E k \in Keys :
       /\ LsmEntry(k).type = kTypeValueHandle
       /\ HandleOf(LsmEntry(k)).table_ \in pending_outputs_
  /\ \E k \in Keys :
       /\ LsmEntry(k).type = kTypeValueHandle
       /\ HandleOf(LsmEntry(k)).table_ = FirstVLogNumber

\* A step that stops the process and reopens the database.
RestartStep == manifest_number_' # manifest_number_

\* C8: once the process has stopped during a GC run (before the output file
\* was in ro_files_, between that and the version edit, or after the edit)
\* and the database has been reopened, every key reads its latest written
\* value, also after later GC runs, RemoveObsoleteBlob and further reopens.
C8_ReadableAfterStopInGC ==
  stopped_at \in {"before", "between", "after"}
    => \A k \in Keys : Get(k) = LsmEntry(k).want

\* C9: a value whose Put returned OK and that a SyncLSM (or a write-back)
\* made durable is what Get returns after a restart, unless the key has been
\* written with something else since.
C9_SyncedPutSurvivesRestart ==
  [][ RestartStep
        => \A k \in Keys :
             (/\ lsm[k].want.status = "OK"
              /\ \A i \in 1..Len(wal) :
                   wal[i].key = k => wal[i].want = lsm[k].want)
               => GetEntry(LsmEntry(k)', files', ro_files_', rwfile_') = lsm[k].want ]_vars


\* C10: when the active vlog file is cut inside its last record and the
\* engine is reopened, the file is truncated to the end of the last whole
\* record, every earlier record is readable at its handle, and the next Put
\* of a record of the same size returns the handle the lost record had.
C10_TornTailRecovered ==
  /\ Len(lost) >= 1 =>
       \A i \in 1..Len(returned) :
         VLogGet(returned[i].handle_) = Ok(returned[i].value_)
  /\ Len(lost) = 1 =>
       Len(files[lost[1].handle_.table_].data) = lost[1].handle_.offset_
  /\ (Len(lost) = 2 /\ lost[2].handle_.size_ = lost[1].handle_.size_) =>
       lost[2].handle_ = lost[1].handle_

\* C10 with the rule Recover applies to the active file: it resumes at the
\* truncated length when it is at most half of blob_max_file_size;
\* otherwise it is closed into the live set and the next Put starts a new
\* file at offset 0.
C10_TornTailRecoveredHalfFull ==
  /\ Len(lost) >= 1 =>
       \A i \in 1..Len(returned) :
         VLogGet(returned[i].handle_) = Ok(returned[i].value_)
  /\ Len(lost) = 1 =>
       Len(files[lost[1].handle_.table_].data) = lost[1].handle_.offset_
  /\ (Len(lost) = 2 /\ lost[2].handle_.size_ = lost[1].handle_.size_) =>
       IF 2 * lost[1].handle_.offset_ <= blob_max_file_size
       THEN lost[2].handle_ = lost[1].handle_
       ELSE /\ lost[2].handle_.table_ > lost[1].handle_.table_
            /\ lost[2].handle_.offset_ = 0
            /\ lost[1].handle_.table_ \in DOMAIN ro_files_

C10_Witness ==
  /\ Len(lost) = 2
  /\ lost[1].handle_.offset_ > 0
  /\ lost[2].handle_ = lost[1].handle_
  /\ lost[2].key_ # lost[1].key_

\* C11: ValueLogImpl::Put returns the handle (active file, offset, size):
\* size is the encoded length of the record and offset the sum of the sizes
\* of the records already in the file, which consists of whole records
\* from offset 0 on, also after a close and reopen.
C11_PutReturnsContiguousHandle ==
  [][ Len(returned') = Len(returned) + 1 =>
        LET r == returned'[Len(returned')]
            h == r.handle_
        IN  /\ h.table_ = rwfile_
            /\ h.size_ = Len(EncodeRecord(r.key_, r.value_))
            /\ h.offset_ = Len(files[rwfile_].data)
            /\ h.offset_ = ValidPrefix(files[rwfile_].data, 0)
            /\ \A i \in 1..Len(returned) :
                 returned[i].handle_.table_ = h.table_ =>
                   returned[i].handle_.offset_ + returned[i].handle_.size_
                     <= h.offset_ ]_vars

C11_Witness ==
  /\ Len(lost) = 2
  /\ lost[2].handle_.table_ = rwfile_
  /\ lost[2].handle_.offset_ > 0
  /\ manifest_number_ > FirstVLogNumber

\* What a reader gets for key after the operations of batch, in order; none
\* when the batch does not write the key.
RECURSIVE LastOp(_, _, _)
LastOp(batch, key, none) ==
  IF batch = <<>> THEN none
  ELSE LET o == batch[Len(batch)]
       IN  IF o.key = key
           THEN (IF o.op = "Delete" THEN NotFound ELSE Ok(o.value))
           ELSE LastOp(SubSeq(batch, 1, Len(batch) - 1), key, none)

\* The LSM entry e is what DivideWriteBatch makes of the operation o, read
\* under the version (fs, ro, rw).
DividedAs(o, e, fs, ro, rw) ==
  /\ e.key = o.key
  /\ o.op = "Delete" => e.type = kTypeDeletion
  /\ (o.op = "Put" /\ Len(o.value) < blob_value_size_threshold) =>
       e.type = kTypeValue /\ e.value = o.value
  /\ (o.op = "Put" /\ Len(o.value) >= blob_value_size_threshold) =>
       /\ e.type = kTypeValueHandle
       /\ GetLocked(fs, ro, rw, HandleOf(e)) = Ok(o.value)
       /\ DecodeRecord(fs[HandleOf(e).table_].data, HandleOf(e).offset_,
                       Len(fs[HandleOf(e).table_].data)).key = o.key

\* C12: a Put below blob_value_size_threshold becomes an Inline entry of the
\* LSM batch, a Put at or above it a record of the value batch and a Handle
\* entry, a Delete a Deletion entry; the LSM batch keeps the order of the
\* batch, and after the commit a reader sees the last operation on each key.
C12_DivideWriteBatch ==
  [][ /\ (fg[1].pc = "idle" /\ fg'[1].pc = "appended") =>
           /\ Len(fg'[1].small) = Len(updates')
           /\ \A i \in 1..Len(updates') :
                DividedAs(updates'[i], fg'[1].small[i], files', ro_files_', rwfile_')
           /\ \E i \in 1..Len(updates') : IsLarge(updates'[i])
      /\ (fg[1].pc = "idle" /\ fg'[1].pc = "idle" /\ wal' # wal) =>
           /\ LatestSequence' = LatestSequence + Len(updates')
           /\ \A i \in 1..Len(updates') :
                /\ ~IsLarge(updates'[i])
                /\ DividedAs(updates'[i], wal'[Len(wal') - Len(updates') + i],
                             files', ro_files_', rwfile_')
           /\ \A k \in Keys :
                GetEntry(LsmEntry(k)', files', ro_files_', rwfile_')
                  = LastOp(updates', k, Get(k))
      /\ (fg[1].pc = "synced" /\ fg'[1].pc = "idle") =>
           /\ LatestSequence' = LatestSequence + Len(updates)
           /\ \A k \in Keys :
                GetEntry(LsmEntry(k)', files', ro_files_', rwfile_')
                  = LastOp(updates, k, Get(k)) ]_vars

C12_Witness ==
  /\ Len(updates) = 2
  /\ updates[1].key = updates[2].key
  /\ updates[1].value = LargeValue
  /\ updates[2].value = NearValue
  /\ fg[1].pc = "idle"
  /\ Get(updates[1].key) = Ok(NearValue)

\* C13: with several threads in BlobDB::Write at once, at most one holds
\* the write permit of the value log, every vlog file consists of whole
\* records, the records of the writes in flight read back their values at
\* their handles, and Get returns for every key the value of the last write
\* that returned.
C13_ConcurrentPut ==
  /\ Cardinality({t \in Writers : fg[t].pc = "appended"}) <= 1
  /\ \A n \in FileNumbers :
       files[n].exists => ValidPrefix(files[n].data, 0) = Len(files[n].data)
  /\ \A t \in Writers : \A i \in 1..Len(fg[t].small) :
       fg[t].small[i].type = kTypeValueHandle =>
         VLogGet(HandleOf(fg[t].small[i])) = fg[t].small[i].want
  /\ \A t, u \in Writers : \A i \in 1..Len(fg[t].small) : \A j \in 1..Len(fg[u].small) :
       (/\ t # u
        /\ fg[t].small[i].type = kTypeValueHandle
        /\ fg[u].small[j].type = kTypeValueHandle)
         => HandleOf(fg[t].small[i]) # HandleOf(fg[u].small[j])
  /\ \A k \in Keys : Get(k) = LsmEntry(k).want

C13_Witness ==
  /\ fg[1].pc = "synced"
  /\ fg[2].pc = "appended"
  /\ HandleOf(fg[1].small[1]).table_ = HandleOf(fg[2].small[1]).table_
  /\ LsmEntry(<<1>>).type = kTypeValueHandle

\* What a skipped GC run must leave alone: the files on disk, the live and
\* the obsolete set, the manifest and the LSM.
SkipFrame ==
  UNCHANGED << files, manifest, ro_files_, obsolete_files_, pending_outputs_,
               vlog_file_number_, lsm, lsm_seq, wal >>

\* C14: Rewrite skips exactly when the size discard percentage is below
\* blob_gc_size_discard_threshold and the entry discard percentage is below
\* blob_gc_num_discard_threshold; the skipped run ends with NonFatal as the
\* background status and changes no file, no file set and nothing in the LSM.
C14_SkipBelowThreshold ==
  [][ /\ (gcpc = "rewrite" /\ GCStep /\ gc.total_size > 0 /\ gc.total_entries > 0) =>
           /\ (gcpc' = "finish" /\ gc'.s = "NonFatal")
                <=> (/\ (gc.discard_size * 100) \div gc.total_size
                           < blob_gc_size_discard_threshold
                     /\ (gc.discard_entries * 100) \div gc.total_entries
                           < blob_gc_num_discard_threshold)
           /\ (gcpc' = "finish" /\ gc'.s = "NonFatal") => SkipFrame
      /\ (gcpc = "finish" /\ GCStep /\ gc.s = "NonFatal") =>
           /\ bg_error_' = "NonFatal"
           /\ SkipFrame ]_vars

C14_Witness ==
  /\ bg_error_ = "NonFatal"
  /\ gcpc = "finish"
  /\ gc.s = "NonFatal"
  /\ gc.total_entries > 0
  /\ gc.discard_entries = 0

\* C15: when every record of the picked file is dead and the thresholds are
\* reached, Rewrite creates no file, takes no file number, writes nothing to
\* the LSM and commits the single edit DeleteFile(picked file, latest LSM
\* sequence); the file is in obsolete_files_ afterwards.
C15_AllDeadDeletesFile ==
  [][ (/\ gcpc = "rewrite" /\ GCStep
       /\ gc.total_size > 0 /\ gc.total_entries > 0
       /\ gc.discard_entries = gc.total_entries
       /\ ~((gc.discard_size * 100) \div gc.total_size < blob_gc_size_discard_threshold
            /\ (gc.discard_entries * 100) \div gc.total_entries
                 < blob_gc_num_discard_threshold)) =>
        /\ UNCHANGED << files, vlog_file_number_, pending_outputs_, ro_files_,
                        lsm, lsm_seq, wal >>
        /\ manifest'.ro = manifest.ro
        /\ manifest'.obsolete = MapPut(manifest.obsolete, gc.number, LatestSequence)
        /\ obsolete_files_' = MapPut(obsolete_files_, gc.number, LatestSequence)
        /\ gc.number \in DOMAIN obsolete_files_'
        /\ gcpc' = "finish"
        /\ gc'.s = "OK" ]_vars

C15_Witness ==
  /\ gcpc = "finish"
  /\ gc.s = "OK"
  /\ gc.total_entries > 0
  /\ gc.discard_entries = gc.total_entries
  /\ gc.obsolete_sequence > 0
  /\ gc.number \in DOMAIN obsolete_files_
  /\ obsolete_files_[gc.number] = gc.obsolete_sequence

\* C16: Write(options, batch, callback) runs the callback before the batch
\* is applied: with OK the whole batch is applied, with any other status
\* nothing of the batch is applied and the database is unchanged; Write
\* returns OK in both cases.
C16_WriteCallback ==
  [][ updates' # <<>> =>
        LET st == LsmGet(CallbackKey).status
        IN  /\ DBImplWriteStatus(st) = "OK"
            /\ IF st = "OK"
               THEN /\ LatestSequence' = LatestSequence + Len(updates')
                    /\ \A i \in 1..Len(updates') :
                         DividedAs(updates'[i], wal'[Len(wal') - Len(updates') + i],
                                   files', ro_files_', rwfile_')
                    /\ \A k \in Keys :
                         GetEntry(LsmEntry(k)', files', ro_files_', rwfile_')
                           = LastOp(updates', k, Get(k))
               ELSE UNCHANGED << lsm, lsm_seq, wal, snapshots, files >> ]_vars

C16_Witness ==
  /\ Len(updates) = 2
  /\ LsmGet(CallbackKey).status = "NotFound"
  /\ Get(<<1>>) = Ok(NearValue)
  /\ updates[2] = [op |-> "Delete", key |-> <<1>>, value |-> <<>>]

\* C17: with a fatal bg_error_ or with shutdown_ set no job is scheduled and
\* no job enters BackgroundGC, and a fatal bg_error_ stays as it is; with a
\* NonFatal bg_error_ a started job enters BackgroundGC, and a run that ends
\* with OK makes bg_error_ OK.
C17_FatalErrorLatched ==
  [][ /\ (gcpc = "idle" /\ gcpc' # "idle") =>
           ~shutdown_ /\ ~IsFatal(bg_error_)
      /\ bg_queue' > bg_queue => ~shutdown_' /\ ~IsFatal(bg_error_')
      /\ IsFatal(bg_error_) => bg_error_' = bg_error_
      /\ (bg_queue' < bg_queue /\ bg_error_ = "NonFatal" /\ ~shutdown_) =>
           gcpc' # "idle"
      /\ (gcpc = "finish" /\ gcpc' = "idle" /\ gc.s = "OK") => bg_error_' = "OK"
    ]_vars

C17_Witness ==
  /\ IsFatal(bg_error_)
  /\ ~shutdown_
  /\ manual_gc_
  /\ gc_interval_elapsed
  /\ gcpc = "idle"
  /\ bg_queue = 0
  /\ ~bg_garbage_collection_

\* C18: when shutdown_ is set while a GC run is in flight, no later step of
\* the run commits a version edit (the manifest and obsolete_files_ stay as
\* they are) and the run ends with an IOError.
C18_ShutdownAbortsRun ==
  [][ (gcpc \in {"collect", "scan", "rewrite", "rewrite_values", "rewrite_lsm"}
       /\ shutdown_ /\ GCStep) =>
        /\ manifest' = manifest
        /\ obsolete_files_' = obsolete_files_
        /\ gcpc' = "finish" => gc'.s = "IOError" ]_vars

\* C19: a run picks the lowest-numbered file of ro_files_ that is >= the
\* requested number (manual_gc_number for a manual run, gc_pointer_ otherwise)
\* and not in obsolete_files_, never the file being appended to; when there is
\* no such file the run has no candidate, touches no file and ends NonFatal.
C19_PickLowestLiveFile ==
  [][ /\ (gcpc = "idle" /\ gcpc' # "idle") =>
            LET number == IF manual_gc_ THEN manual_gc_number ELSE gc_pointer_
                candidates == {n \in DOMAIN ro_files_ :
                                 n >= number /\ n \notin DOMAIN obsolete_files_}
            IN  IF candidates = {}
                THEN /\ gc'.number = 0
                     /\ gcpc' = "finish"
                     /\ gc'.s = "NonFatal"
                     /\ UNCHANGED << diskVars, versionVars >>
                ELSE /\ gc'.number \in candidates
                     /\ \A m \in candidates : gc'.number <= m
                     /\ gc'.number # rwfile_
                     /\ gcpc' = "collect"
      /\ (gcpc = "finish" /\ gc.number = 0 /\ gcpc' = "idle") =>
            /\ bg_error_' = "NonFatal"
            /\ UNCHANGED << diskVars, versionVars >> ]_vars

\* A manual run asked for a number at or below an obsolete file that is still
\* in ro_files_ and picked a file above it.
C19_Witness ==
  /\ gcpc = "collect"
  /\ ~manual_gc_
  /\ gc_pointer_ # gc.number + 1
  /\ \E f \in DOMAIN obsolete_files_ :
        f \in DOMAIN ro_files_ /\ manual_gc_number <= f /\ f < gc.number

\* C20: a file number registered in pending_outputs_ is not picked by a GC
\* run, manual or automatic, before the version edit that adds the file is in
\* the manifest; the output of an earlier run that made no edit included.
C20_PendingOutputNotPicked ==
  (gcpc = "collect") =>
    ~(gc.number \in pending_outputs_ /\ gc.number \notin DOMAIN manifest.ro)

\* C21: a call to WaitVLogGC returns at some time when ManualGC is not called
\* again while it waits, and at its return no GC job is scheduled or running.
C21_WaitVLogGCReturns ==
  /\ waiting ~> ~waiting
  /\ [][ (waiting /\ ~waiting' /\ stopped_at' = stopped_at) =>
            (~bg_garbage_collection_ /\ bg_queue = 0 /\ gcpc = "idle") ]_vars

\* C22: every ManualGC(n) made while the value log is not shutting down and
\* bg_error_ is not fatal is followed by a run whose pick starts at n, also
\* when a run is executing at the call and when other calls follow before
\* the job runs.
C22_ManualGCRuns ==
  \A n \in {0, FirstVLogNumber} :
    (manual_gc_ /\ manual_gc_number = n /\ ~shutdown_ /\ ~IsFatal(bg_error_))
      ~> (gcpc # "idle" /\ gc.manual /\ gc.from = n)

\* C23: at every key a Valid iterator stands on, value() is the value last
\* written to that key as of the iterator's view, for inline and vlog-stored
\* values alike, and it is the same with blob_prefetch as without it.
C23_IteratorValue ==
  (iterator.open /\ iterator.key # <<>>) =>
    /\ iterator.key \in LiveKeys(iterator.view)
    /\ IterValue(iterator) = iterator.view[iterator.key].want
    /\ IterValue(iterator)
         = GetEntry(iterator.view[iterator.key], files, ro_files_, rwfile_)

\* C24: a NotFound of the LSM lookup only counts the record dead: when the
\* scan of Collect ends, whichever record was NotFound, the run goes on to
\* Rewrite, and bg_error_ never holds NotFound.
C24_NotFoundIsDead ==
  /\ [][ (gcpc = "scan" /\ gcpc' # "scan") =>
            (gcpc' = "rewrite" /\ ~IsFatal(gc'.s)) ]_vars
  /\ [](bg_error_ # "NotFound")

\* C25: Rewrite computes its discard percentages only with total_entries > 0
\* and total_size > 0, also after a NonFatal Collect and for a file without
\* records.
C25_NoDivisionByZero ==
  (gcpc = "rewrite") => (gc.total_entries > 0 /\ gc.total_size > 0)

\* C26: a run whose pick found no candidate ends NonFatal and, when no
\* ManualGC is pending, BGCall schedules no job at its end: the next automatic
\* run waits for blob_gc_interval.
C26_NoRerunAfterEmptyPick ==
  [][ (gcpc = "finish" /\ gc.number = 0 /\ gcpc' = "idle" /\ ~manual_gc_) =>
        /\ bg_error_' = "NonFatal"
        /\ ~bg_garbage_collection_'
        /\ bg_queue' = bg_queue ]_vars

\* C27: after a run has picked a file, automatically or by ManualGC,
\* gc_pointer_ is the picked number plus one for as long as the run lasts.
C27_PointerFollowsPick ==
  (gcpc # "idle" /\ gc.number # 0) => gc_pointer_ = gc.number + 1

\* C28: the callback of a rewrite returns OK exactly when the key's current
\* LSM entry is a Handle entry equal to the handle the record had at Collect;
\* a deleted key, another handle and an inline value of any bytes are rejected.
C28_CallbackChecksHandle ==
  (gcpc = "rewrite_lsm") =>
    LET cb == gc.rewrites[gc.iter]
        e == LsmEntry(cb.key_)
    IN  (Callback(cb) = "OK")
          <=> (e.type = kTypeValueHandle /\ HandleOf(e) = cb.handle_)
\* C29: each live record of a GC run is committed to the LSM as a batch of
\* its own, gated by its own callback.  A rewrite whose callback rejects it
\* leaves the LSM as it was and neither stops nor fails the run; a rewrite
\* whose callback accepts it makes the key a handle into the output file; no
\* other key changes; and the run goes on to commit the version edit that
\* adds the output file and deletes the collected one.
C29_RejectedRewriteSkipped ==
  /\ [][ (gcpc = "rewrite_lsm" /\ gc' # gc) =>
          LET cb == gc.rewrites[gc.iter]
              after == ApplyWal(lsm', wal', Len(wal'))
          IN  /\ gc'.s = gc.s
              /\ gc'.iter = gc.iter + 1
              /\ gcpc' = IF gc.iter < Len(gc.rewrites)
                         THEN "rewrite_lsm" ELSE "rewrite_commit"
              /\ \A k \in Keys \ {cb.key_} : after[k] = LsmEntry(k)
              /\ IF Callback(cb) = "OK"
                 THEN /\ after[cb.key_].type = kTypeValueHandle
                      /\ HandleOf(after[cb.key_]).table_ = gc.out
                 ELSE after[cb.key_] = LsmEntry(cb.key_) ]_vars
  /\ [][ (gcpc = "rewrite_commit" /\ gcpc' # gcpc) =>
          /\ gcpc' = "finish"
          /\ gc'.s = "OK"
          /\ gc.out \in DOMAIN manifest'.ro
          /\ gc.number \in DOMAIN manifest'.obsolete ]_vars

\* A run that rewrote two records has committed its edit; one of the two
\* keys was overwritten with a short value before its rewrite and the other
\* is a handle into the output file.
C29_Witness ==
  /\ gcpc = "finish"
  /\ gc.s = "OK"
  /\ Len(gc.rewrites) = 2
  /\ gc.out \in DOMAIN manifest.ro
  /\ gc.number \in DOMAIN manifest.obsolete
  /\ \E i, j \in 1..2 :
       /\ LsmEntry(gc.rewrites[i].key_).type = kTypeValue
       /\ LsmEntry(gc.rewrites[j].key_).type = kTypeValueHandle
       /\ HandleOf(LsmEntry(gc.rewrites[j].key_)).table_ = gc.out

\* C30: every handle entry visible in the LSM names a file that is the
\* active vlog file or a file of ro_files_, and that file is on disk.
C30_HandlesReferenceLiveFiles ==
  \A k \in Keys :
    LET e == LsmEntry(k)
        n == HandleOf(e).table_
    IN  e.type = kTypeValueHandle =>
          /\ n = rwfile_ \/ n \in DOMAIN ro_files_
          /\ files[n].exists

\* C32: pending_outputs_ holds only the output file of the GC run that is
\* under way: when no run is executing it is empty.
C32_PendingOutputsCleared == (gcpc = "idle") => (pending_outputs_ = {})

\* C37: vlog_file_number_ is at least every number of ro_files_, of
\* obsolete_files_ and of pending_outputs_ and the number of the active
\* file; it never decreases; and a file that comes into being has a number
\* above the vlog_file_number_ of before, which no existing file has; the
\* output file of a GC run is none of the files the version knows.
C37_FileNumbersIncrease ==
  /\ [](gcpc = "rewrite_values" =>
          gc.out \notin DOMAIN ro_files_ \cup DOMAIN obsolete_files_
                          \cup {rwfile_, gc.number})
  /\ [](\A n \in DOMAIN ro_files_ \cup DOMAIN obsolete_files_
                  \cup pending_outputs_ \cup {rwfile_} :
          n <= vlog_file_number_)
  /\ [][ /\ vlog_file_number_' >= vlog_file_number_
         /\ \A n \in FileNumbers :
              (files'[n].exists /\ ~files[n].exists) =>
                /\ n > vlog_file_number_
                /\ n <= vlog_file_number_' ]_vars

\* A GC run has taken the number of its output file after a reopen and a
\* rollover took theirs.
C37_Witness ==
  /\ gc.out # 0
  /\ gc.out \in pending_outputs_
  /\ stopped_at # "never"
  /\ DOMAIN ro_files_ # {}
  /\ gc.out > rwfile_

\* C36: a VLogRWFile is deleted once, when its count has dropped to zero and
\* not before: the count is never negative; it is one for the value log
\* while the file is current plus one for each open iterator; the current
\* file and a file with an open iterator are not deleted; a deleted file was
\* closed by Finish; and a file nobody refers to any more is deleted.
C36_DestroyedAtZeroRefs ==
  \A i \in 1..Len(rwfiles) :
    LET f == rwfiles[i]
    IN  /\ f.refs_ >= 0
        /\ f.deleted <= 1
        /\ f.unref = 0 =>
              f.refs_ = (IF f.current THEN 1 ELSE 0) + f.iterators
        /\ (f.current \/ f.iterators > 0) => f.deleted = 0
        /\ f.deleted > 0 => f.closed_
        /\ (f.unref = 0 /\ f.refs_ = 0) => f.deleted = 1

C38_OutputFailureEndsRun ==
  /\ [][ (gcpc = "rewrite" /\ vlog_file_number_' # vlog_file_number_
            /\ ~files'[vlog_file_number_'].exists) =>
          /\ gcpc' = "finish"
          /\ IsFatal(gc'.s)
          /\ vlog_file_number_' \notin DOMAIN ro_files_' ]_vars
  /\ []( ( /\ gc.out # 0
           /\ gcpc \in {"rewrite_lsm", "rewrite_commit", "finish"}
           /\ files[gc.out].data # BatchBytes(gc.value_batch) ) =>
          /\ gcpc = "finish"
          /\ IsFatal(gc.s)
          /\ gc.out \notin DOMAIN ro_files_
          /\ \A k \in Keys :
               LsmEntry(k).type = kTypeValueHandle =>
                 HandleOf(LsmEntry(k)).table_ # gc.out )

\* C34: a thread that reads or writes manual_gc_ or manual_gc_number holds
\* mutex_.
C34_ManualGCUnderMutex ==
  \A t \in LockThreads :
    (At(t).op \in {"Read", "Write"}
       /\ At(t).a \in {"manual_gc_", "manual_gc_number"}) =>
      sync.mutex_ = {t}

C33_LeftoverOutputCollected ==
  \E n \in {FirstVLogNumber + 2} :
    (/\ n \in DOMAIN ro_files_ \ DOMAIN manifest.ro
     /\ gc.out # n
     /\ \A k \in Keys : LsmEntry(k).type = kTypeValueHandle
                           => HandleOf(LsmEntry(k)).table_ # n)
      ~> \/ n \in DOMAIN obsolete_files_
         \/ n \notin DOMAIN ro_files_
         \/ ~files[n].exists

\* The percentage floor(100 * discard / total) in unbounded arithmetic.
Percentage(discard, total) == Quotient(Times(discard, 100), total)

\* C39: the percentages the threshold test of Rewrite compared are
\* floor(100 * discard_size / total_size) and
\* floor(100 * discard_entries / total_entries), and the file was skipped
\* only if both of these are below their thresholds.
C39_PercentagesExact ==
  (gcpc \in {"finish", "rewrite_checked"} /\ gc.total_size # 0
     /\ gc.total_entries # 0) =>
    /\ SizeDiscardRatio(gc) = Percentage(gc.discard_size, gc.total_size)
    /\ NumDiscardRatio(gc) = Percentage(gc.discard_entries, gc.total_entries)
    /\ (gc.s = "NonFatal" /\ gcpc = "finish") =>
         /\ Percentage(gc.discard_size, gc.total_size)
              < options_.blob_gc_size_discard_threshold
         /\ Percentage(gc.discard_entries, gc.total_entries)
              < options_.blob_gc_num_discard_threshold
====
